---- MODULE Spec2Model ----
(***************************************************************************)
(* A model of the k8s chat backend: the kubectl tool and its command       *)
(* classifier, the entry points that invoke tools, the Temporal chat       *)
(* workflow, and the Goose session service (session store and streamed     *)
(* turns).  Each family of operations has its own specification over its   *)
(* own variables; the variables of the other families stay unchanged.      *)
(***************************************************************************)
EXTENDS Integers, Sequences, FiniteSets, TLC

(***************************************************************************)
(* Part 1.  extensions/k8s/tools/kubectl.py, and the callers of tools.     *)
(***************************************************************************)

\* KubectlTool.SAFE_COMMANDS
SAFE_COMMANDS ==
    {"get", "describe", "logs", "top", "version", "cluster-info",
     "config", "explain", "api-resources", "api-versions"}

\* KubectlTool.WRITE_COMMANDS
WRITE_COMMANDS ==
    {"apply", "create", "replace", "patch", "edit", "scale", "autoscale",
     "expose", "set", "label", "annotate"}

\* KubectlTool.DANGEROUS_COMMANDS
DANGEROUS_COMMANDS ==
    {"delete", "rollout", "drain", "cordon", "uncordon", "taint"}

\* Subcommands a caller may pass that are in none of the three sets; "" is the
\* empty command, which execute() refuses before anything else.
OtherCommands == {"exec", "port-forward", "GET"}

EmptyCommand == ""

Commands ==
    SAFE_COMMANDS \cup WRITE_COMMANDS \cup DANGEROUS_COMMANDS
        \cup OtherCommands \cup {EmptyCommand}

\* The value of a local that has not been assigned yet.
None == "None"

\* A classifier in which confirm=true lifts the restriction on dangerous commands.
CheckCommandSecurity_ConfirmOverrides(command, confirm) ==
    IF command \in DANGEROUS_COMMANDS /\ ~confirm
    THEN [allowed |-> FALSE, category |-> "dangerous",
          reason |-> "is dangerous and not allowed for safety",
          consulted |-> <<"DANGEROUS_COMMANDS">>]
    ELSE IF command \in SAFE_COMMANDS
    THEN [allowed |-> TRUE, category |-> "safe",
          reason |-> "Command is safe to execute",
          consulted |-> <<"DANGEROUS_COMMANDS", "WRITE_COMMANDS", "SAFE_COMMANDS">>]
    ELSE IF confirm /\ command \in WRITE_COMMANDS \cup DANGEROUS_COMMANDS
    THEN [allowed |-> TRUE, category |-> "confirmed_write",
          reason |-> "Command is safe to execute",
          consulted |-> <<"DANGEROUS_COMMANDS", "WRITE_COMMANDS", "SAFE_COMMANDS",
                          "WRITE_COMMANDS">>]
    ELSE IF command \in WRITE_COMMANDS
    THEN [allowed |-> FALSE, category |-> "write_needs_confirmation",
          reason |-> "modifies cluster state and requires confirmation (set confirm=true)",
          consulted |-> <<"DANGEROUS_COMMANDS", "WRITE_COMMANDS">>]
    ELSE [allowed |-> FALSE, category |-> "unknown",
          reason |-> "Unknown command - not in allowed list",
          consulted |-> <<"DANGEROUS_COMMANDS", "WRITE_COMMANDS", "SAFE_COMMANDS",
                          "WRITE_COMMANDS">>]

\* A classifier that never looks at confirm for write commands.
CheckCommandSecurity_IgnoreConfirm(command, confirm) ==
    IF command \in DANGEROUS_COMMANDS
    THEN [allowed |-> FALSE, category |-> "dangerous",
          reason |-> "is dangerous and not allowed for safety",
          consulted |-> <<"DANGEROUS_COMMANDS">>]
    ELSE IF command \in SAFE_COMMANDS \/ command \in WRITE_COMMANDS
    THEN [allowed |-> TRUE,
          category |-> IF command \in SAFE_COMMANDS THEN "safe" ELSE "confirmed_write",
          reason |-> "Command is safe to execute",
          consulted |-> <<"DANGEROUS_COMMANDS", "SAFE_COMMANDS", "WRITE_COMMANDS">>]
    ELSE [allowed |-> FALSE, category |-> "unknown",
          reason |-> "Unknown command - not in allowed list",
          consulted |-> <<"DANGEROUS_COMMANDS", "SAFE_COMMANDS", "WRITE_COMMANDS">>]

\* A classifier that fails open: whatever is not denied by name is allowed.
CheckCommandSecurity_FailOpen(command, confirm) ==
    IF command \in DANGEROUS_COMMANDS
    THEN [allowed |-> FALSE, category |-> "dangerous",
          reason |-> "is dangerous and not allowed for safety",
          consulted |-> <<"DANGEROUS_COMMANDS">>]
    ELSE IF command \in WRITE_COMMANDS /\ ~confirm
    THEN [allowed |-> FALSE, category |-> "write_needs_confirmation",
          reason |-> "modifies cluster state and requires confirmation (set confirm=true)",
          consulted |-> <<"DANGEROUS_COMMANDS", "WRITE_COMMANDS">>]
    ELSE [allowed |-> TRUE,
          category |-> IF command \in WRITE_COMMANDS THEN "confirmed_write" ELSE "safe",
          reason |-> "Command is safe to execute",
          consulted |-> <<"DANGEROUS_COMMANDS", "WRITE_COMMANDS">>]

\* A check that takes delete for a command that needs confirmation.
CheckCommandSecurity_DeleteAsWrite(command, confirm) ==
    IF command \in DANGEROUS_COMMANDS \ {"delete"}
    THEN [allowed |-> FALSE, category |-> "dangerous",
          reason |-> "is dangerous and not allowed for safety",
          consulted |-> <<"DANGEROUS_COMMANDS">>]
    ELSE IF command \in (WRITE_COMMANDS \cup {"delete"}) /\ ~confirm
    THEN [allowed |-> FALSE, category |-> "write_needs_confirmation",
          reason |-> "modifies cluster state and requires confirmation (set confirm=true)",
          consulted |-> <<"DANGEROUS_COMMANDS", "WRITE_COMMANDS">>]
    ELSE IF command \in SAFE_COMMANDS \/ command \in (WRITE_COMMANDS \cup {"delete"})
    THEN [allowed |-> TRUE,
          category |-> IF command \in SAFE_COMMANDS THEN "safe" ELSE "confirmed_write",
          reason |-> "Command is safe to execute",
          consulted |-> <<"DANGEROUS_COMMANDS", "WRITE_COMMANDS", "SAFE_COMMANDS">>]
    ELSE [allowed |-> FALSE, category |-> "unknown",
          reason |-> "Unknown command - not in allowed list",
          consulted |-> <<"DANGEROUS_COMMANDS", "WRITE_COMMANDS", "SAFE_COMMANDS",
                          "WRITE_COMMANDS">>]

\* KubectlTool._check_command_security: the verdict for (command, confirm).
\* consulted lists the membership tests in the order Python evaluates them
\* (`and` and `or` short-circuit).
CheckCommandSecurity(command, confirm) ==
    IF command \in DANGEROUS_COMMANDS
    THEN [allowed |-> FALSE, category |-> "dangerous",
          reason |-> "is dangerous and not allowed for safety",
          consulted |-> <<"DANGEROUS_COMMANDS">>]
    ELSE IF command \in WRITE_COMMANDS /\ ~confirm
    THEN [allowed |-> FALSE, category |-> "write_needs_confirmation",
          reason |-> "modifies cluster state and requires confirmation (set confirm=true)",
          consulted |-> <<"DANGEROUS_COMMANDS", "WRITE_COMMANDS">>]
    ELSE IF command \in SAFE_COMMANDS \/ (command \in WRITE_COMMANDS /\ confirm)
    THEN [allowed |-> TRUE,
          category |-> IF command \in SAFE_COMMANDS THEN "safe" ELSE "confirmed_write",
          reason |-> "Command is safe to execute",
          consulted |-> IF command \in SAFE_COMMANDS
                        THEN <<"DANGEROUS_COMMANDS", "WRITE_COMMANDS", "SAFE_COMMANDS">>
                        ELSE <<"DANGEROUS_COMMANDS", "WRITE_COMMANDS", "SAFE_COMMANDS",
                               "WRITE_COMMANDS">>]
    ELSE [allowed |-> FALSE, category |-> "unknown",
          reason |-> "Unknown command - not in allowed list",
          consulted |-> <<"DANGEROUS_COMMANDS", "WRITE_COMMANDS", "SAFE_COMMANDS",
                          "WRITE_COMMANDS">>]

\* K8sToolkit._create_tools: the names of the tools of the toolkit.
ToolNames ==
    {"kubectl", "cluster_info", "get_pods", "get_deployments", "get_services", "get_nodes"}

\* The tools of tools/deployments.py, whose execute() returns a constant.
PlaceholderTools == {"cluster_info", "get_deployments", "get_services", "get_nodes"}

\* Tool names a caller or the intent analysis may ask for: the toolkit's names
\* and names the toolkit does not know.
RequestedTools == ToolNames \cup {"delete_pod", "scale_deployment"}

\* Outcomes of the `kubectl version --client` probe of check_kubectl_available.
ProbeOutcomes == {"ready", "error", "not_installed"}

\* Outcomes of the subprocess of _execute_command.
RunOutcomes == {"rc0", "rc_nonzero", "spawn_failed"}

\* Outcomes of MCPClient.call_tool, which catches every exception itself.
McpOutcomes == {"result", "error"}

\* How _get_pods_via_mcp ends: a result without error, a result with an
\* error (call_tool returns {"error": ...} for every failure of the call), or
\* an exception (a result that is not a dict has no get).
PodsMcpOutcomes == McpOutcomes \cup {"raise"}

\* PodsTool.execute has not called _get_pods_via_mcp.
NoMcpCall == [outcome |-> "none", warned |-> FALSE]

\* security_check before _check_command_security has run.
NoCheck == [allowed |-> FALSE, category |-> "none", reason |-> "", consulted |-> <<>>]

\* A result that has not been produced yet.
Pending == [success |-> FALSE, error |-> "pending"]

\* The response of an entry point that has not answered yet.
NoResponse == [status |-> "pending", success |-> FALSE]

VARIABLES
    entry,        \* the entry point being served: "idle", "api", "activity", "agent"
    reqTool,      \* the tool name of the request
    response,     \* what the entry point answered (NoResponse while running)
    mcpEnabled,   \* K8sToolkit.mcp_client is set (settings.k8s_mcp_server_url)
    ppc,          \* PodsTool.execute: "idle", "mcp", "kubectl", "done"
    presult,      \* what PodsTool.execute returned
    pmcp,         \* how _get_pods_via_mcp ended in this call of execute, and
                  \* whether execute logged its warning about the fallback
    kpc,          \* KubectlTool.execute: "idle", "probing", "running", "done"
    kcaller,      \* who awaits KubectlTool.execute: "api", "pods", "agent"
    kcommand,     \* its command argument
    kconfirm,     \* its confirm argument
    ksecurity,    \* its local security_check (NoCheck before the check)
    kran,         \* _execute_command was called in this call of execute
    kresult,      \* the dict execute returned
    spawned,      \* subprocesses this request has spawned: "probe", "command"
    toolLog       \* tool invocations of this request, each with the verdict of
                  \* the classification that preceded it ("none": no classification)

toolVars ==
    <<entry, reqTool, response, mcpEnabled, ppc, presult, pmcp, kpc, kcaller, kcommand,
      kconfirm, ksecurity, kran, kresult, spawned, toolLog>>

ToolInit ==
    /\ entry = "idle"
    /\ reqTool = None
    /\ response = NoResponse
    /\ mcpEnabled \in BOOLEAN
    /\ ppc = "idle"
    /\ presult = Pending
    /\ pmcp = NoMcpCall
    /\ kpc = "idle"
    /\ kcaller = None
    /\ kcommand = None
    /\ kconfirm = FALSE
    /\ ksecurity = NoCheck
    /\ kran = FALSE
    /\ kresult = Pending
    /\ spawned = {}
    /\ toolLog = {}

\* KubectlTool.execute up to its first suspension: the empty command is refused,
\* otherwise the availability probe is spawned.
KubectlEnter(caller, command, confirm) ==
    /\ kcaller' = caller
    /\ kcommand' = command
    /\ kconfirm' = confirm
    /\ ksecurity' = NoCheck
    /\ kran' = FALSE
    /\ IF command = EmptyCommand
       THEN /\ kpc' = "done"
            /\ kresult' = [success |-> FALSE, error |-> "Command is required"]
            /\ UNCHANGED spawned
       ELSE /\ kpc' = "probing"
            /\ kresult' = Pending
            /\ spawned' = spawned \cup {"probe"}

\* execute() calling _execute_command whatever the security check said.
KubectlAfterProbe_NoGate(outcome) ==
    /\ kpc = "probing"
    /\ IF outcome # "ready"
       THEN /\ kpc' = "done"
            /\ kresult' = [success |-> FALSE, error |-> "kubectl is not available"]
            /\ UNCHANGED <<ksecurity, kran, spawned, toolLog>>
       ELSE /\ ksecurity' = CheckCommandSecurity(kcommand, kconfirm)
            /\ kpc' = "running"
            /\ kran' = TRUE
            /\ kresult' = Pending
            /\ spawned' = spawned \cup {"command"}
            /\ toolLog' = toolLog \cup
                   {[via |-> "kubectl", name |-> kcommand,
                     verdict |-> ksecurity'.category]}
    /\ UNCHANGED <<entry, reqTool, response, mcpEnabled, ppc, presult, pmcp, kcaller,
                   kcommand, kconfirm>>

\* KubectlTool.execute from the probe's answer to its next suspension: kubectl
\* unavailable is an error; otherwise the security check, and only an allowed
\* command goes on to _execute_command.
KubectlAfterProbe(outcome) ==
    /\ kpc = "probing"
    /\ IF outcome # "ready"
       THEN /\ kpc' = "done"
            /\ kresult' = [success |-> FALSE, error |-> "kubectl is not available"]
            /\ UNCHANGED <<ksecurity, kran, spawned, toolLog>>
       ELSE /\ ksecurity' = CheckCommandSecurity(kcommand, kconfirm)
            /\ IF ~ksecurity'.allowed
               THEN /\ kpc' = "done"
                    /\ kresult' = [success |-> FALSE, error |-> ksecurity'.reason]
                    /\ UNCHANGED <<kran, spawned, toolLog>>
               ELSE /\ kpc' = "running"
                    /\ kran' = TRUE
                    /\ kresult' = Pending
                    /\ spawned' = spawned \cup {"command"}
                    /\ toolLog' = toolLog \cup
                           {[via |-> "kubectl", name |-> kcommand,
                             verdict |-> ksecurity'.category]}
    /\ UNCHANGED <<entry, reqTool, response, mcpEnabled, ppc, presult, pmcp, kcaller,
                   kcommand, kconfirm>>

\* _execute_command returning, and execute() returning its result.
KubectlAfterRun(outcome) ==
    /\ kpc = "running"
    /\ kpc' = "done"
    /\ kresult' =
           CASE outcome = "rc0" -> [success |-> TRUE, error |-> ""]
             [] outcome = "rc_nonzero" -> [success |-> FALSE, error |-> "stderr"]
             [] OTHER -> [success |-> FALSE, error |-> "Execution failed"]
    /\ UNCHANGED <<entry, reqTool, response, mcpEnabled, ppc, presult, pmcp, kcaller,
                   kcommand, kconfirm, ksecurity, kran, spawned, toolLog>>

\* call_k8s_tool (POST /k8s/tools/{tool_name}) up to its first suspension: the
\* tool is looked up by name and its execute(**args) is called directly.
\* hasCommand = FALSE is a request whose arguments hold no "command" key.
\* The toolkit is taken to be registered (GooseService.initialize has run).
CallK8sTool(tool_name, hasCommand, command, confirm) ==
    /\ entry = "idle"
    /\ entry' = "api"
    /\ reqTool' = tool_name
    /\ CASE tool_name \notin ToolNames ->
              /\ response' = [status |-> "404", success |-> FALSE]
              /\ UNCHANGED <<ppc, kpc, kcaller, kcommand, kconfirm, ksecurity, kran,
                             kresult, spawned, toolLog>>
         [] tool_name \in PlaceholderTools ->
              /\ toolLog' = toolLog \cup
                     {[via |-> "placeholder", name |-> tool_name, verdict |-> "none"]}
              /\ response' = [status |-> "200", success |-> TRUE]
              /\ UNCHANGED <<ppc, kpc, kcaller, kcommand, kconfirm, ksecurity, kran,
                             kresult, spawned>>
         [] tool_name = "kubectl" /\ ~hasCommand ->
              \* execute() is missing its required argument: TypeError, answered 500
              /\ response' = [status |-> "500", success |-> FALSE]
              /\ UNCHANGED <<ppc, kpc, kcaller, kcommand, kconfirm, ksecurity, kran,
                             kresult, spawned, toolLog>>
         [] tool_name = "kubectl" /\ hasCommand ->
              /\ KubectlEnter("api", command, confirm)
              /\ UNCHANGED <<response, ppc, toolLog>>
         [] tool_name = "get_pods" /\ mcpEnabled ->
              \* PodsTool.execute tries the MCP server first
              /\ ppc' = "mcp"
              /\ toolLog' = toolLog \cup
                     {[via |-> "mcp", name |-> "get_pods", verdict |-> "none"]}
              /\ UNCHANGED <<response, kpc, kcaller, kcommand, kconfirm, ksecurity,
                             kran, kresult, spawned>>
         [] tool_name = "get_pods" /\ ~mcpEnabled ->
              /\ ppc' = "kubectl"
              /\ KubectlEnter("pods", "get", FALSE)
              /\ UNCHANGED <<response, toolLog>>
    /\ UNCHANGED <<mcpEnabled, presult, pmcp>>

\* PodsTool.execute after _get_pods_via_mcp: a successful MCP result is
\* returned, anything else falls back to _get_pods_via_kubectl.  Only the
\* except branch logs the warning "MCP client failed, falling back to kubectl".
PodsAfterMcp(outcome) ==
    /\ ppc = "mcp"
    /\ pmcp' = [outcome |-> outcome, warned |-> (outcome = "raise")]
    /\ IF outcome = "result"
       THEN /\ ppc' = "done"
            /\ presult' = [success |-> TRUE, error |-> ""]
            /\ UNCHANGED <<kpc, kcaller, kcommand, kconfirm, ksecurity, kran,
                           kresult, spawned>>
       ELSE /\ ppc' = "kubectl"
            /\ KubectlEnter("pods", "get", FALSE)
            /\ UNCHANGED presult
    /\ UNCHANGED <<entry, reqTool, response, mcpEnabled, toolLog>>

\* _get_pods_via_kubectl after kubectl.execute returned: a failed command is a
\* failure, and so is output that does not parse.
PodsAfterKubectl(parses) ==
    /\ ppc = "kubectl"
    /\ kpc = "done"
    /\ kcaller = "pods"
    /\ ppc' = "done"
    /\ kpc' = "idle"
    /\ presult' =
           IF ~kresult.success THEN [success |-> FALSE, error |-> kresult.error]
           ELSE IF parses THEN [success |-> TRUE, error |-> ""]
           ELSE [success |-> FALSE, error |-> "Failed to parse kubectl output"]
    /\ UNCHANGED <<entry, reqTool, response, mcpEnabled, pmcp, kcaller, kcommand,
                   kconfirm, ksecurity, kran, kresult, spawned, toolLog>>

\* call_k8s_tool after tool.execute returned: whatever the tool returned is
\* answered with success: True.
CallK8sToolReturn ==
    /\ entry = "api"
    /\ response = NoResponse
    /\ \/ /\ reqTool = "kubectl"
          /\ kpc = "done"
          /\ kcaller = "api"
          /\ kpc' = "idle"
          /\ UNCHANGED ppc
       \/ /\ reqTool = "get_pods"
          /\ ppc = "done"
          /\ ppc' = "idle"
          /\ UNCHANGED kpc
    /\ response' = [status |-> "200", success |-> TRUE]
    /\ UNCHANGED <<entry, reqTool, mcpEnabled, presult, pmcp, kcaller, kcommand,
                   kconfirm, ksecurity, kran, kresult, spawned, toolLog>>

\* The execute_k8s_command activity up to its suspension: the tool name the
\* workflow passes goes straight to mcp_client.call_tool, with empty arguments.
ExecuteK8sCommand(tool_name) ==
    /\ entry = "idle"
    /\ entry' = "activity"
    /\ reqTool' = tool_name
    /\ toolLog' = toolLog \cup
           {[via |-> "mcp", name |-> tool_name, verdict |-> "none"]}
    /\ UNCHANGED <<response, mcpEnabled, ppc, presult, pmcp, kpc, kcaller, kcommand,
                   kconfirm, ksecurity, kran, kresult, spawned>>

\* The activity after call_tool returned: the result, or {"error": ...}.
ExecuteK8sCommandReturn(outcome) ==
    /\ entry = "activity"
    /\ response = NoResponse
    /\ response' = [status |-> "returned", success |-> (outcome = "result")]
    /\ UNCHANGED <<entry, reqTool, mcpEnabled, ppc, presult, pmcp, kpc, kcaller,
                   kcommand, kconfirm, ksecurity, kran, kresult, spawned, toolLog>>

\* The caller has its answer; the next request starts from a clean slate.
RequestDone ==
    /\ response # NoResponse
    /\ entry' = "idle"
    /\ reqTool' = None
    /\ response' = NoResponse
    /\ ppc' = "idle"
    /\ presult' = Pending
    /\ pmcp' = NoMcpCall
    /\ kpc' = "idle"
    /\ kcaller' = None
    /\ kcommand' = None
    /\ kconfirm' = FALSE
    /\ ksecurity' = NoCheck
    /\ kran' = FALSE
    /\ kresult' = Pending
    /\ spawned' = {}
    /\ toolLog' = {}
    /\ UNCHANGED mcpEnabled

(***************************************************************************)
(* Part 2.  app/temporal/workflows.py: ChatWorkflow.run and the activities *)
(* it executes.  workflow.execute_activity either returns the activity's   *)
(* value or raises (the activity failed, or its start_to_close_timeout was *)
(* exceeded).                                                              *)
(***************************************************************************)

\* The longest suggested_tools list of an intent analysis.
MaxTools == 2

\* Tool names an intent analysis may suggest.
WfTools == {"get_pods", "delete_pod"}

RECURSIVE SeqsUpTo(_, _)
\* The sequences over S of length at most n.
SeqsUpTo(S, n) ==
    IF n = 0 THEN {<<>>}
    ELSE LET shorter == SeqsUpTo(S, n - 1)
         IN shorter \cup {Append(q, x) : q \in {r \in shorter : Len(r) = n - 1}, x \in S}

\* What analyze_user_intent may return: the parsed answer of the model, the
\* keyword fallback or the fallback of its except branch.
IntentResults ==
    [requires_k8s : BOOLEAN, suggested_tools : SeqsUpTo(WfTools, MaxTools)]

\* intent_analysis before the first activity has returned.
NoIntent == [requires_k8s |-> FALSE, suggested_tools |-> <<>>]

\* What get_claude_response may return: AnthropicService.get_chat_completion
\* returns the text of the first content block, or "" when there is none.
ClaudeTexts == {"text", ""}

\* The response of the except branch of run: "I encountered an error ...".
ErrorResponse == "I encountered an error while processing your request"

\* What the MCP-backed activities may return: call_tool gives the result or a
\* dict {"error": ...}, never an exception.
McpValues == {"result", "error_dict"}

VARIABLES
    wpc,            \* ChatWorkflow.run: "idle", "intent", "status", "tools",
                    \* "synth", "returned", "faulted" (an exception left run)
    intent,         \* intent_analysis
    k8s_data,       \* response_data["k8s_data"]
    toolResults,    \* response_data["k8s_tool_results"] (empty: the key is absent)
    wresponse,      \* response_data["response"]
    werror,         \* response_data["error"]
    wi,             \* the index of the tool the for loop is at
    wTried,         \* indices of suggested_tools whose activity was executed
    wFailed,        \* indices of suggested_tools whose activity raised
    wSynth          \* get_claude_response was executed

wfVars ==
    <<wpc, intent, k8s_data, toolResults, wresponse, werror, wi, wTried, wFailed,
      wSynth>>

WfInit ==
    /\ wpc = "idle"
    /\ intent = NoIntent
    /\ k8s_data = None
    /\ toolResults = <<>>
    /\ wresponse = None
    /\ werror = None
    /\ wi = 0
    /\ wTried = {}
    /\ wFailed = {}
    /\ wSynth = FALSE

\* run() up to the analyze_user_intent activity.
WfStart ==
    /\ wpc = "idle"
    /\ wpc' = "intent"
    /\ UNCHANGED <<intent, k8s_data, toolResults, wresponse, werror, wi, wTried,
                   wFailed, wSynth>>

\* A workflow that gathers the cluster status whatever the analysis says.
WfIntentReturned_AlwaysStatus(result) ==
    /\ wpc = "intent"
    /\ intent' = result
    /\ wpc' = "status"
    /\ wSynth' = FALSE
    /\ UNCHANGED <<k8s_data, toolResults, wresponse, werror, wi, wTried, wFailed>>

\* The analyze_user_intent activity returned: response_data is built, and the
\* workflow goes to the cluster status when K8s operations are required, to the
\* response otherwise.
WfIntentReturned(result) ==
    /\ wpc = "intent"
    /\ intent' = result
    /\ wpc' = IF result.requires_k8s THEN "status" ELSE "synth"
    /\ wSynth' = ~result.requires_k8s
    /\ UNCHANGED <<k8s_data, toolResults, wresponse, werror, wi, wTried, wFailed>>

\* The analyze_user_intent activity raised in the workflow (its 30 s
\* start_to_close_timeout): the await is outside the try block.
WfIntentRaised ==
    /\ wpc = "intent"
    /\ wpc' = "faulted"
    /\ UNCHANGED <<intent, k8s_data, toolResults, wresponse, werror, wi, wTried,
                   wFailed, wSynth>>

\* The position after the tool at index i: the next tool, or the response.
AfterTool(i) == IF i < Len(intent.suggested_tools) THEN "tools" ELSE "synth"

\* The except branch of run: error and an explanation as the response.
WfFail ==
    /\ wpc' = "returned"
    /\ werror' = "error"
    /\ wresponse' = ErrorResponse

\* The get_cluster_status activity returned.
WfStatusReturned(value) ==
    /\ wpc = "status"
    /\ k8s_data' = value
    /\ wpc' = AfterTool(0)
    /\ wi' = IF AfterTool(0) = "tools" THEN 1 ELSE wi
    /\ wTried' = IF AfterTool(0) = "tools" THEN {1} ELSE wTried
    /\ wSynth' = (AfterTool(0) = "synth")
    /\ UNCHANGED <<intent, toolResults, wresponse, werror, wFailed>>

\* The get_cluster_status activity raised: the outer except ends the turn.
WfStatusRaised ==
    /\ wpc = "status"
    /\ WfFail
    /\ UNCHANGED <<intent, k8s_data, toolResults, wi, wTried, wFailed, wSynth>>

\* The execute_k8s_command activity of the tool at wi returned: its value is
\* stored under the tool's name, and the loop goes on.
WfToolReturned(value) ==
    /\ wpc = "tools"
    /\ toolResults' =
           [t \in DOMAIN toolResults \cup {intent.suggested_tools[wi]} |->
               IF t = intent.suggested_tools[wi] THEN value ELSE toolResults[t]]
    /\ wpc' = AfterTool(wi)
    /\ wi' = IF AfterTool(wi) = "tools" THEN wi + 1 ELSE wi
    /\ wTried' = IF AfterTool(wi) = "tools" THEN wTried \cup {wi + 1} ELSE wTried
    /\ wSynth' = (AfterTool(wi) = "synth")
    /\ UNCHANGED <<intent, k8s_data, wresponse, werror, wFailed>>

\* A failed tool activity ending the turn through the outer except.
WfToolRaised_Abort ==
    /\ wpc = "tools"
    /\ wFailed' = wFailed \cup {wi}
    /\ WfFail
    /\ UNCHANGED <<intent, k8s_data, toolResults, wi, wTried, wSynth>>

\* The execute_k8s_command activity of the tool at wi raised: the inner except
\* logs it and the loop goes on.
WfToolRaised ==
    /\ wpc = "tools"
    /\ wFailed' = wFailed \cup {wi}
    /\ wpc' = AfterTool(wi)
    /\ wi' = IF AfterTool(wi) = "tools" THEN wi + 1 ELSE wi
    /\ wTried' = IF AfterTool(wi) = "tools" THEN wTried \cup {wi + 1} ELSE wTried
    /\ wSynth' = (AfterTool(wi) = "synth")
    /\ UNCHANGED <<intent, k8s_data, toolResults, wresponse, werror>>

\* The get_claude_response activity returned: its text is the response.
WfSynthReturned(text) ==
    /\ wpc = "synth"
    /\ wresponse' = text
    /\ wpc' = "returned"
    /\ UNCHANGED <<intent, k8s_data, toolResults, werror, wi, wTried, wFailed, wSynth>>

\* The get_claude_response activity raised: the outer except.
WfSynthRaised ==
    /\ wpc = "synth"
    /\ WfFail
    /\ UNCHANGED <<intent, k8s_data, toolResults, wi, wTried, wFailed, wSynth>>

\* A message of the list given to get_claude_response: the system message
\* carries the cluster status and the tool results of its content.
ContextMessage(data, results) ==
    [role |-> "system", text |-> "Current Kubernetes cluster context", status |-> data,
     tools |-> results]

\* The current user message as _enhance_messages_with_k8s_context appends it.
CurrentUserMessage ==
    [role |-> "user", text |-> "user_message", status |-> None, tools |-> <<>>]

\* messages.insert(-1, m): m goes before the last element (and into an empty
\* list as its only element).
InsertBeforeLast(messages, m) ==
    IF messages = <<>> THEN <<m>>
    ELSE SubSeq(messages, 1, Len(messages) - 1) \o <<m, messages[Len(messages)]>>

\* ChatWorkflow._enhance_messages_with_k8s_context: a copy of the history with
\* the current user message appended and, when there is cluster data or a tool
\* result, a system message with both inserted before that last message.
EnhanceMessages(history, data, results) ==
    LET messages == Append(history, CurrentUserMessage)
    IN IF data # None \/ DOMAIN results # {}
       THEN InsertBeforeLast(messages, ContextMessage(data, results))
       ELSE messages

\* The caller's conversation_history after the call: append and insert act on
\* `messages`, the copy made by conversation_history.copy().
HistoryAfterEnhance(history, data, results) == history

\* The caller has the result of run (or its exception); the next turn starts.
WfReset ==
    /\ wpc \in {"returned", "faulted"}
    /\ wpc' = "idle"
    /\ intent' = NoIntent
    /\ k8s_data' = None
    /\ toolResults' = <<>>
    /\ wresponse' = None
    /\ werror' = None
    /\ wi' = 0
    /\ wTried' = {}
    /\ wFailed' = {}
    /\ wSynth' = FALSE

(***************************************************************************)
(* Part 3.  app/services/goose_service.py: the session store and the       *)
(* streamed turn.  The service runs on one asyncio event loop: a step of   *)
(* the model is the code one coroutine runs between two suspension points  *)
(* (an await that leaves the loop, or a yield of the async generator).     *)
(* The agent session (session.goose_session) and the session manager are   *)
(* external: their calls return, raise or deliver events as they choose.   *)
(***************************************************************************)

\* settings.goose_session_timeout, in seconds.
goose_session_timeout == 3600

\* The number of sessions create_session may create.
MaxSessions == 2

\* The number of calls into the service that may run concurrently; each
\* coroutine runs one call, and the coroutines are numbered in the order of
\* their calls.
MaxProcs == 2

\* The number of times the clock advances.
MaxTicks == 1

\* The number of events an agent stream delivers before it completes, ends or
\* raises.
MaxStream == 2

SessionIds == 1..MaxSessions

\* The id no session has: a request for it finds nothing in the store.
UnknownId == 0

Procs == 1..MaxProcs

\* The clock advances by a whole timeout, or by a second more.
TickSteps == {goose_session_timeout, goose_session_timeout + 1}

\* Text fragments an agent may deliver in a text_delta event.
Deltas == {"a", "b"}

\* Tool names an agent may report in tool_call and tool_result events.
AgentTools == {"kubectl"}

\* The events of session.goose_session.send_message that the loop handles
\* without leaving it: text_delta, tool_call, tool_result (success, and whether
\* the event carries an error), and an event of a type the loop has no branch
\* for.
StreamEvents ==
    [type : {"text_delta"}, content : Deltas]
        \cup [type : {"tool_call"}, tool_name : AgentTools]
        \cup [type : {"tool_result"}, tool_name : AgentTools, success : BOOLEAN,
              error : {"failed", None}]
        \cup [type : {"other"}]

\* How an agent stream finishes: a message_complete event, the end of the
\* stream, or an exception.
StreamEndings == {"message_complete", "end", "raise"}

\* Outcomes of session.goose_session.close().
CloseOutcomes == {"closed", "raise"}

\* A session object that create_session has not created yet.
NoSession == [status |-> "none", updated_at |-> 0, messages |-> <<>>]

\* A coroutine that has not been called yet.
IdleProc ==
    [op |-> "none", pc |-> "idle", sid |-> UnknownId, ref |-> UnknownId,
     todo |-> <<>>, ret |-> "pending", listed |-> {}, after |-> {},
     expired |-> {}, content |-> <<>>, n |-> 0, text |-> None]

VARIABLES
    sessions,     \* the keys of GooseService.sessions
    sess,         \* the GooseSessionData objects, by id (they outlive the store's
                  \* entry while a coroutine holds a reference)
    nextId,       \* the next fresh session id (uuid4 never repeats)
    now,          \* datetime.now(), in seconds since the first session was created
    ticks,        \* how often the clock has advanced
    proc,         \* the coroutines: operation, position, locals, return value
    events        \* the events each send_message generator has yielded

storeVars == <<sessions, sess, nextId, now, ticks, proc, events>>

StoreInit ==
    /\ sessions = {}
    /\ sess = [s \in SessionIds |-> NoSession]
    /\ nextId = 1
    /\ now = 0
    /\ ticks = 0
    /\ proc = [p \in Procs |-> IdleProc]
    /\ events = [p \in Procs |-> <<>>]

\* GooseService._is_session_expired
IsSessionExpired(s) == now - sess[s].updated_at > goose_session_timeout

\* An append that builds a new list and leaves the session's list as it was.
AppendMessage_Lost(messages, m) == messages

\* session.messages.append(m)
AppendMessage(messages, m) == Append(messages, m)

RECURSIVE SortedSeq(_)
\* The ids of S in the order of the dict (insertion order: ascending id).
SortedSeq(S) ==
    IF S = {} THEN <<>>
    ELSE LET m == CHOOSE x \in S : \A y \in S : x <= y
         IN <<m>> \o SortedSeq(S \ {m})

RECURSIVE SkipAbsent(_, _)
\* close_session returns False at once for an id that is not in the store:
\* the ids of todo from the first one the store holds.
SkipAbsent(todo, store) ==
    IF todo = <<>> THEN <<>>
    ELSE IF Head(todo) \in store THEN todo
    ELSE SkipAbsent(Tail(todo), store)

\* The clock advances.  It starts with the creation of the first session:
\* only differences to a session's updated_at are ever read.
Tick(d) ==
    /\ ticks < MaxTicks
    /\ nextId > 1
    /\ now' = now + d
    /\ ticks' = ticks + 1
    /\ UNCHANGED <<sessions, sess, nextId, proc, events>>

\* create_session, from the return of session_manager.create_session: the
\* session data is built and stored under a fresh id.
CreateSession ==
    /\ nextId \in SessionIds
    /\ sess' = [sess EXCEPT ![nextId] =
                   [status |-> "active", updated_at |-> now,
                    messages |-> <<>>]]
    /\ sessions' = sessions \cup {nextId}
    /\ nextId' = nextId + 1
    /\ UNCHANGED <<now, ticks, proc, events>>

\* Coroutine p is the next one to be called.
NextCall(p) ==
    /\ proc[p].pc = "idle"
    /\ \A q \in Procs : q < p => proc[q].pc # "idle"

\* The ids a caller may ask for: the ids of created sessions and an unknown id.
KnownIds == {UnknownId} \cup (1..(nextId - 1))

\* close_session(s) called by coroutine p, up to `await goose_session.close()`.
\* Only called here for an id the store holds.
EnterClose(p, op, s) ==
    [proc[p] EXCEPT !.op = op, !.pc = "closing", !.sid = s, !.ref = s]

\* get_session(s), called from the API (GET /goose/sessions/{id}): an expired
\* session is closed first; otherwise the store's entry, or None, is returned.
GetSession(p, s) ==
    /\ NextCall(p)
    /\ IF s \in sessions /\ IsSessionExpired(s)
       THEN proc' = [proc EXCEPT ![p] = EnterClose(p, "get", s)]
       ELSE proc' = [proc EXCEPT ![p] =
                [@ EXCEPT !.op = "get", !.pc = "done", !.sid = s,
                          !.ret = IF s \in sessions THEN "session" ELSE "none"]]
    /\ UNCHANGED <<sessions, sess, nextId, now, ticks, events>>

\* A close_session that deletes the store's entry without releasing the agent
\* session.
CloseSession_DeleteFirst(p, s) ==
    /\ NextCall(p)
    /\ proc' = [proc EXCEPT ![p] =
           [@ EXCEPT !.op = "close", !.pc = "done", !.sid = s,
                     !.ret = IF s \in sessions THEN "true" ELSE "false"]]
    /\ sessions' = sessions \ {s}
    /\ sess' = IF s \in sessions
               THEN [sess EXCEPT ![s] = [@ EXCEPT !.status = "closed"]]
               ELSE sess
    /\ UNCHANGED <<nextId, now, ticks, events>>

\* close_session(s), called from the API (DELETE /goose/sessions/{id}).
CloseSession(p, s) ==
    /\ NextCall(p)
    /\ IF s \in sessions
       THEN proc' = [proc EXCEPT ![p] = EnterClose(p, "close", s)]
       ELSE proc' = [proc EXCEPT ![p] =
                [@ EXCEPT !.op = "close", !.pc = "done", !.sid = s, !.ret = "false"]]
    /\ UNCHANGED <<sessions, sess, nextId, now, ticks, events>>

\* The ids for which a get_session has already answered None after finding the
\* session expired.
AnsweredMissing ==
    {proc[q].sid : q \in {r \in Procs : /\ proc[r].op = "get"
                                        /\ proc[r].pc = "done"
                                        /\ proc[r].ret = "none"
                                        /\ proc[r].ref # UnknownId}}

\* list_sessions from a list of ids still to close: ids the store no longer
\* holds are skipped without suspension; the next one is closed, and when none
\* is left the values of the store are returned.
ListContinue(p, todo, store) ==
    LET rest == SkipAbsent(todo, store)
    IN IF rest = <<>>
       THEN [proc[p] EXCEPT !.op = "list", !.pc = "done", !.todo = <<>>,
                            !.ret = "list", !.listed = store]
       ELSE [proc[p] EXCEPT !.op = "list", !.pc = "closing", !.sid = Head(rest),
                            !.ref = Head(rest), !.todo = Tail(rest)]

\* list_sessions: the expired sessions are collected, then closed one by one.
ListSessions(p) ==
    /\ NextCall(p)
    /\ proc' = [proc EXCEPT ![p] =
           [ListContinue(p, SortedSeq({s \in sessions : IsSessionExpired(s)}), sessions)
               EXCEPT !.after = AnsweredMissing,
                      !.expired = {s \in sessions : IsSessionExpired(s)}]]
    /\ UNCHANGED <<sessions, sess, nextId, now, ticks, events>>

\* The event send_message yields when get_session gave no session.
NotFoundEvent == [type |-> "error", session_id |-> UnknownId]

\* A send_message that starts the agent stream without having appended the
\* user message.
SendMessage_StreamFirst(p, s) ==
    /\ NextCall(p)
    /\ IF s \in sessions /\ IsSessionExpired(s)
       THEN /\ proc' = [proc EXCEPT ![p] = EnterClose(p, "turn", s)]
            /\ UNCHANGED <<sess, events>>
       ELSE IF s \notin sessions
       THEN /\ proc' = [proc EXCEPT ![p] =
                   [@ EXCEPT !.op = "turn", !.pc = "done", !.sid = s, !.ret = "none"]]
            /\ events' = [events EXCEPT ![p] = <<NotFoundEvent>>]
            /\ UNCHANGED sess
       ELSE /\ sess' = [sess EXCEPT ![s] = [@ EXCEPT !.updated_at = now]]
            /\ proc' = [proc EXCEPT ![p] =
                   [@ EXCEPT !.op = "turn", !.pc = "streaming", !.sid = s, !.ref = s]]
            /\ events' = [events EXCEPT ![p] =
                   <<[type |-> "session_start", session_id |-> s]>>]
    /\ UNCHANGED <<sessions, nextId, now, ticks>>

\* A send_message that appends the user message and leaves updated_at as it
\* was.
SendMessage_NoBump(p, s) ==
    /\ NextCall(p)
    /\ IF s \in sessions /\ IsSessionExpired(s)
       THEN /\ proc' = [proc EXCEPT ![p] = EnterClose(p, "turn", s)]
            /\ UNCHANGED <<sess, events>>
       ELSE IF s \notin sessions
       THEN /\ proc' = [proc EXCEPT ![p] =
                   [@ EXCEPT !.op = "turn", !.pc = "done", !.sid = s, !.ret = "none"]]
            /\ events' = [events EXCEPT ![p] = <<NotFoundEvent>>]
            /\ UNCHANGED sess
       ELSE /\ sess' = [sess EXCEPT ![s] =
                   [@ EXCEPT !.messages = AppendMessage(@, [turn |-> p, role |-> "user"])]]
            /\ proc' = [proc EXCEPT ![p] =
                   [@ EXCEPT !.op = "turn", !.pc = "streaming", !.sid = s, !.ref = s]]
            /\ events' = [events EXCEPT ![p] =
                   <<[type |-> "session_start", session_id |-> s]>>]
    /\ UNCHANGED <<sessions, nextId, now, ticks>>

\* A send_message over sessions that share one message list (a list object
\* given to every GooseSessionData): the user message shows in each of them.
SendMessage_SharedList(p, s) ==
    /\ NextCall(p)
    /\ IF s \in sessions /\ IsSessionExpired(s)
       THEN /\ proc' = [proc EXCEPT ![p] = EnterClose(p, "turn", s)]
            /\ UNCHANGED <<sess, events>>
       ELSE IF s \notin sessions
       THEN /\ proc' = [proc EXCEPT ![p] =
                   [@ EXCEPT !.op = "turn", !.pc = "done", !.sid = s, !.ret = "none"]]
            /\ events' = [events EXCEPT ![p] = <<NotFoundEvent>>]
            /\ UNCHANGED sess
       ELSE /\ sess' = [b \in SessionIds |->
                   IF b \in sessions
                   THEN [sess[b] EXCEPT
                            !.messages = AppendMessage(@, [turn |-> p, role |-> "user"]),
                            !.updated_at = IF b = s THEN now ELSE @]
                   ELSE sess[b]]
            /\ proc' = [proc EXCEPT ![p] =
                   [@ EXCEPT !.op = "turn", !.pc = "streaming", !.sid = s, !.ref = s]]
            /\ events' = [events EXCEPT ![p] =
                   <<[type |-> "session_start", session_id |-> s]>>]
    /\ UNCHANGED <<sessions, nextId, now, ticks>>

\* send_message(s, message) up to its first suspension: get_session (which
\* closes an expired session first), the error event for a missing session, or
\* the user message appended and session_start yielded.
SendMessage(p, s) ==
    /\ NextCall(p)
    /\ IF s \in sessions /\ IsSessionExpired(s)
       THEN /\ proc' = [proc EXCEPT ![p] = EnterClose(p, "turn", s)]
            /\ UNCHANGED <<sess, events>>
       ELSE IF s \notin sessions
       THEN /\ proc' = [proc EXCEPT ![p] =
                   [@ EXCEPT !.op = "turn", !.pc = "done", !.sid = s, !.ret = "none"]]
            /\ events' = [events EXCEPT ![p] = <<NotFoundEvent>>]
            /\ UNCHANGED sess
       ELSE /\ sess' = [sess EXCEPT ![s] =
                   [@ EXCEPT !.messages = AppendMessage(@, [turn |-> p, role |-> "user"]),
                             !.updated_at = now]]
            /\ proc' = [proc EXCEPT ![p] =
                   [@ EXCEPT !.op = "turn", !.pc = "streaming", !.sid = s, !.ref = s]]
            /\ events' = [events EXCEPT ![p] =
                   <<[type |-> "session_start", session_id |-> s]>>]
    /\ UNCHANGED <<sessions, nextId, now, ticks>>

\* The event the loop of send_message yields for an agent event; <<>> for an
\* event type it has no branch for.
Yielded(p, ev) ==
    CASE ev.type = "text_delta" ->
           <<[type |-> "message_delta", delta |-> ev.content, message_id |-> p,
              session_id |-> proc[p].sid]>>
      [] ev.type = "tool_call" ->
           <<[type |-> "tool_call", name |-> ev.tool_name, session_id |-> proc[p].sid]>>
      [] ev.type = "tool_result" ->
           <<[type |-> "tool_result", name |-> ev.tool_name, success |-> ev.success,
              error |-> IF ~ev.success THEN ev.error ELSE None,
              session_id |-> proc[p].sid]>>
      [] OTHER -> <<>>

\* A loop that forwards a text_delta without adding it to response_content.
StreamEvent_NoAccumulate(p, ev) ==
    /\ proc[p].pc = "streaming"
    /\ proc[p].n < MaxStream
    /\ proc' = [proc EXCEPT ![p] = [@ EXCEPT !.n = @ + 1]]
    /\ events' = [events EXCEPT ![p] = @ \o Yielded(p, ev)]
    /\ UNCHANGED <<sessions, sess, nextId, now, ticks>>

\* One iteration of `async for event in session.goose_session.send_message`
\* for an event that keeps the loop going.
StreamEvent(p, ev) ==
    /\ proc[p].pc = "streaming"
    /\ proc[p].n < MaxStream
    /\ proc' = [proc EXCEPT ![p] =
           [@ EXCEPT !.n = @ + 1,
                     !.content = IF ev.type = "text_delta"
                                 THEN Append(@, ev.content) ELSE @]]
    /\ events' = [events EXCEPT ![p] = @ \o Yielded(p, ev)]
    /\ UNCHANGED <<sessions, sess, nextId, now, ticks>>

\* A finish that persists the text accumulated so far as an assistant message
\* when the agent stream raises.
StreamFinish_PersistOnError(p, ending) ==
    /\ proc[p].pc = "streaming"
    /\ CASE ending = "message_complete" ->
              /\ sess' = [sess EXCEPT ![proc[p].ref] =
                     [@ EXCEPT !.messages =
                                   AppendMessage(@, [turn |-> p, role |-> "assistant",
                                                     content |-> proc[p].content]),
                               !.updated_at = now]]
              /\ events' = [events EXCEPT ![p] =
                     Append(@, [type |-> "message_complete",
                                content |-> proc[p].content, message_id |-> p,
                                session_id |-> proc[p].sid])]
              /\ proc' = [proc EXCEPT ![p] = [@ EXCEPT !.pc = "done", !.ret = "complete"]]
         [] ending = "end" ->
              /\ proc' = [proc EXCEPT ![p] = [@ EXCEPT !.pc = "done", !.ret = "ended"]]
              /\ UNCHANGED <<sess, events>>
         [] OTHER ->
              /\ sess' = [sess EXCEPT ![proc[p].ref] =
                     [@ EXCEPT !.messages =
                                   AppendMessage(@, [turn |-> p, role |-> "assistant",
                                                     content |-> proc[p].content]),
                               !.updated_at = now]]
              /\ events' = [events EXCEPT ![p] =
                     Append(@, [type |-> "error", session_id |-> proc[p].sid])]
              /\ proc' = [proc EXCEPT ![p] = [@ EXCEPT !.pc = "done", !.ret = "error"]]
    /\ UNCHANGED <<sessions, nextId, now, ticks>>

\* The agent stream finishes: on message_complete the assistant message is
\* appended to the session the generator holds and message_complete is
\* yielded; when the stream just ends the generator returns; an exception
\* is answered with an error event.
StreamFinish(p, ending) ==
    /\ proc[p].pc = "streaming"
    /\ CASE ending = "message_complete" ->
              /\ sess' = [sess EXCEPT ![proc[p].ref] =
                     [@ EXCEPT !.messages =
                                   AppendMessage(@, [turn |-> p, role |-> "assistant",
                                                     content |-> proc[p].content]),
                               !.updated_at = now]]
              /\ events' = [events EXCEPT ![p] =
                     Append(@, [type |-> "message_complete",
                                content |-> proc[p].content, message_id |-> p,
                                session_id |-> proc[p].sid])]
              /\ proc' = [proc EXCEPT ![p] = [@ EXCEPT !.pc = "done", !.ret = "complete"]]
         [] ending = "end" ->
              /\ proc' = [proc EXCEPT ![p] = [@ EXCEPT !.pc = "done", !.ret = "ended"]]
              /\ UNCHANGED <<sess, events>>
         [] OTHER ->
              /\ events' = [events EXCEPT ![p] =
                     Append(@, [type |-> "error", session_id |-> proc[p].sid])]
              /\ proc' = [proc EXCEPT ![p] = [@ EXCEPT !.pc = "done", !.ret = "error"]]
              /\ UNCHANGED sess
    /\ UNCHANGED <<sessions, nextId, now, ticks>>

\* What is thrown into the generator of an abandoned turn: GeneratorExit when
\* the generator is closed at the yield it is suspended at, CancelledError when
\* the task that iterates it is cancelled at an await.
AbandonThrows == {"GeneratorExit", "CancelledError"}

\* `except Exception` (line 272) catches neither: both derive from
\* BaseException only.
CaughtByExceptException(thrown) == thrown \notin {"GeneratorExit", "CancelledError"}

\* An abandonment whose exception the except branch of send_message catches.
Abandon_CatchAll(p, thrown) ==
    /\ proc[p].pc = "streaming"
    /\ events' = [events EXCEPT ![p] =
           Append(@, [type |-> "error", session_id |-> proc[p].sid])]
    /\ proc' = [proc EXCEPT ![p] = [@ EXCEPT !.pc = "abandoned", !.ret = "abandoned"]]
    /\ UNCHANGED <<sessions, sess, nextId, now, ticks>>

\* The caller abandons the turn p while its generator is suspended in the
\* loop: the exception thrown into the generator passes the except branch
\* unless that catches it, and the generator is finished; code after the
\* loop's yields never runs.
Abandon(p, thrown) ==
    /\ proc[p].pc = "streaming"
    /\ events' = [events EXCEPT ![p] =
           IF CaughtByExceptException(thrown)
           THEN Append(@, [type |-> "error", session_id |-> proc[p].sid])
           ELSE @]
    /\ proc' = [proc EXCEPT ![p] = [@ EXCEPT !.pc = "abandoned", !.ret = "abandoned"]]
    /\ UNCHANGED <<sessions, sess, nextId, now, ticks>>

\* close_session from the return of `await session.goose_session.close()`:
\* when it returned, the session is marked closed and its entry deleted (a
\* KeyError, when another close deleted it meanwhile, is caught and answered
\* False); when it raised, False is returned and the entry stays.  Then the
\* caller goes on: close_session returns, get_session returns None,
\* list_sessions closes the next expired session, send_message yields the
\* error event for a missing session.
CloseReturned(p, outcome) ==
    /\ proc[p].pc = "closing"
    /\ LET s == proc[p].sid
           ok == outcome = "closed" /\ s \in sessions
           store == IF outcome = "closed" THEN sessions \ {s} ELSE sessions
       IN /\ sess' = IF outcome = "closed"
                     THEN [sess EXCEPT ![s] = [@ EXCEPT !.status = "closed"]]
                     ELSE sess
          /\ sessions' = store
          /\ CASE proc[p].op = "close" ->
                    /\ proc' = [proc EXCEPT ![p] =
                           [@ EXCEPT !.pc = "done",
                                     !.ret = IF ok THEN "true" ELSE "false"]]
                    /\ UNCHANGED events
               [] proc[p].op = "get" ->
                    /\ proc' = [proc EXCEPT ![p] = [@ EXCEPT !.pc = "done", !.ret = "none"]]
                    /\ UNCHANGED events
               [] proc[p].op = "list" ->
                    /\ proc' = [proc EXCEPT ![p] = ListContinue(p, proc[p].todo, store)]
                    /\ UNCHANGED events
               [] OTHER ->
                    /\ proc' = [proc EXCEPT ![p] = [@ EXCEPT !.pc = "done", !.ret = "none"]]
                    /\ events' = [events EXCEPT ![p] = <<NotFoundEvent>>]
    /\ UNCHANGED <<nextId, now, ticks>>

\* The user texts a request may carry: none at all, and a question.
Texts == {"", "list pods"}

\* A request without a session id (`message_data.get("session_id")` is None).
NoSessionId == -1

\* The frame the websocket handler answers an empty message with.
MessageRequiredEvent == [type |-> "error", error |-> "Message is required"]

\* send_message(s, text) as the handler p starts to iterate it, up to its first
\* suspension: get_session (which closes an expired session first), the error
\* event for a missing session, or the user message appended and session_start
\* yielded.  The text is not looked at.
SendMessageBody(p, s, text) ==
    /\ IF s \in sessions /\ IsSessionExpired(s)
       THEN /\ proc' = [proc EXCEPT ![p] = [EnterClose(p, "turn", s) EXCEPT !.text = text]]
            /\ UNCHANGED <<sess, events>>
       ELSE IF s \notin sessions
       THEN /\ proc' = [proc EXCEPT ![p] =
                   [@ EXCEPT !.op = "turn", !.pc = "done", !.sid = s, !.ret = "none",
                             !.text = text]]
            /\ events' = [events EXCEPT ![p] = @ \o <<NotFoundEvent>>]
            /\ UNCHANGED sess
       ELSE /\ sess' = [sess EXCEPT ![s] =
                   [@ EXCEPT !.messages = AppendMessage(@, [turn |-> p, role |-> "user"]),
                             !.updated_at = now]]
            /\ proc' = [proc EXCEPT ![p] =
                   [@ EXCEPT !.op = "turn", !.pc = "streaming", !.sid = s, !.ref = s,
                             !.text = text]]
            /\ events' = [events EXCEPT ![p] =
                   @ \o <<[type |-> "session_start", session_id |-> s]>>]
    /\ UNCHANGED <<sessions, nextId, now, ticks>>

\* One message received by websocket_goose_endpoint, up to the handler's first
\* suspension: an empty message is answered with an error frame and the loop
\* continues; without a session id create_session is awaited; otherwise
\* send_message is iterated.
WebsocketRequest(p, text, s) ==
    /\ NextCall(p)
    /\ IF text = ""
       THEN /\ proc' = [proc EXCEPT ![p] =
                   [@ EXCEPT !.op = "ws", !.pc = "done", !.sid = s, !.ret = "invalid",
                             !.text = text]]
            /\ events' = [events EXCEPT ![p] = <<MessageRequiredEvent>>]
            /\ UNCHANGED <<sessions, sess, nextId, now, ticks>>
       ELSE IF s = NoSessionId
       THEN /\ nextId \in SessionIds
            /\ proc' = [proc EXCEPT ![p] =
                   [@ EXCEPT !.op = "ws", !.pc = "creating", !.sid = s, !.text = text]]
            /\ UNCHANGED <<sessions, sess, nextId, now, ticks, events>>
       ELSE SendMessageBody(p, s, text)

\* create_session returns to the websocket handler: the session is stored
\* under a fresh id and the handler sends its session_start frame.
WebsocketCreated(p) ==
    /\ proc[p].pc = "creating"
    /\ nextId \in SessionIds
    /\ sess' = [sess EXCEPT ![nextId] =
                   [status |-> "active", updated_at |-> now,
                    messages |-> <<>>]]
    /\ sessions' = sessions \cup {nextId}
    /\ nextId' = nextId + 1
    /\ proc' = [proc EXCEPT ![p] = [@ EXCEPT !.pc = "created", !.sid = nextId]]
    /\ events' = [events EXCEPT ![p] =
           <<[type |-> "session_start", session_id |-> nextId]>>]
    /\ UNCHANGED <<now, ticks>>

\* The session_start frame is sent; the handler iterates send_message for the
\* session it created.
WebsocketSend(p) ==
    /\ proc[p].pc = "created"
    /\ SendMessageBody(p, proc[p].sid, proc[p].text)

\* send_message_to_session (POST /goose/sessions/{id}/messages), up to its
\* first suspension: get_session, 404 when it gives nothing, otherwise
\* send_message is iterated with request.message, whatever it is.
SendMessageToSession(p, s, text) ==
    /\ NextCall(p)
    /\ IF s \in sessions /\ IsSessionExpired(s)
       THEN /\ proc' = [proc EXCEPT ![p] = [EnterClose(p, "get", s) EXCEPT !.text = text]]
            /\ UNCHANGED <<sessions, sess, nextId, now, ticks, events>>
       ELSE IF s \notin sessions
       THEN /\ proc' = [proc EXCEPT ![p] =
                   [@ EXCEPT !.op = "get", !.pc = "done", !.sid = s, !.ret = "none",
                             !.text = text]]
            /\ UNCHANGED <<sessions, sess, nextId, now, ticks, events>>
       ELSE SendMessageBody(p, s, text)

(***************************************************************************)
(* Part 4.  app/services/chat_service.py: the conversation store and a     *)
(* turn of ChatService.process_user_message, on the durable path           *)
(* (_process_with_temporal) or the direct path (_process_directly, over    *)
(* AnthropicService.stream_chat_completion).  A step is the code one       *)
(* coroutine runs between two suspension points.  The Temporal client, the *)
(* Anthropic stream and the construction of a Conversation by pydantic are *)
(* external: they return, raise or deliver chunks as they choose.          *)
(***************************************************************************)

\* The number of conversations create_conversation may create.
MaxConvs == 3

\* The number of calls of process_user_message; each coroutine runs one.
MaxChatTurns == 2

\* The number of text chunks a completion stream delivers before it ends or
\* raises.
MaxChunks == 1

ConvIds == 1..MaxConvs

ChatProcs == 1..MaxChatTurns

\* conversation_id = None (or empty): the caller names no conversation.
AbsentConv == -1

\* A conversation id the store does not hold (uuid4 never produces it).
UnknownConv == 0

\* The text of a chunk of the completion stream.
ChunkTexts == {"a"}

\* The chunk stream_chat_completion yields for an exception: f"Error: {e}".
ErrorChunk == "Error: e"

\* The chunk _process_with_temporal yields for an exception.
WorkflowErrorChunk == "Workflow error: e"

\* result.get("response", "No response generated") for a result without the key.
NoResponseText == "No response generated"

\* What handle.result() may give: the dict ChatWorkflow.run returns for a turn
\* that worked (its response may be empty), the dict of its except branch, a
\* dict without a response, or an exception.
WorkflowResults ==
    {[response |-> t, error |-> None] : t \in ClaudeTexts}
        \cup {[response |-> ErrorResponse, error |-> "e"], [error |-> None]}

\* Outcomes of start_workflow and of Client.connect.
StartOutcomes == {"started", "raise"}
ConnectOutcomes == {"connected", "raise"}

\* A coroutine that has not been called yet.
IdleChat ==
    [pc |-> "idle", cid |-> AbsentConv, conv |-> UnknownConv, created |-> {},
     full |-> <<>>, n |-> 0, raised |-> FALSE, response |-> None, ret |-> "pending",
     history |-> <<>>]

VARIABLES
    conversations,  \* the keys of ChatService.conversations
    conv,           \* the message lists of the Conversation objects, by id
    cNextId,        \* the next fresh conversation id
    temporal,       \* ChatService.temporal_client: "unset", "connected", "failed"
    cproc,          \* the turns: position, locals, how they ended
    chunks          \* the chunks each process_user_message has yielded

chatVars == <<conversations, conv, cNextId, temporal, cproc, chunks>>

ChatInit ==
    /\ conversations = {}
    /\ conv = [c \in ConvIds |-> <<>>]
    /\ cNextId = 1
    /\ temporal = "unset"
    /\ cproc = [p \in ChatProcs |-> IdleChat]
    /\ chunks = [p \in ChatProcs |-> <<>>]

\* initialize_temporal: the client is kept when the connection succeeds and is
\* None otherwise.  Called before the turns.
InitializeTemporal(outcome) ==
    /\ temporal = "unset"
    /\ \A p \in ChatProcs : cproc[p].pc = "idle"
    /\ temporal' = IF outcome = "connected" THEN "connected" ELSE "failed"
    /\ UNCHANGED <<conversations, conv, cNextId, cproc, chunks>>

\* Coroutine p is the next one to be called.
NextChatCall(p) ==
    /\ cproc[p].pc = "idle"
    /\ \A q \in ChatProcs : q < p => cproc[q].pc # "idle"

\* The conversation ids a caller may send.
RequestedConvs == {AbsentConv, UnknownConv} \cup (1..(cNextId - 1))

\* How many conversations process_user_message creates before its try
\* statement: one for an absent id; two for an id the store does not hold (one
\* by get_conversation, whose id is not the id asked for, and one more by the
\* get_conversation inside add_message); none for an id the store holds.
CreationsNeeded(r) ==
    IF r = AbsentConv THEN 1
    ELSE IF r \in conversations THEN 0
    ELSE 2

\* The conversation that receives the user message: the one asked for when
\* the store holds it, the one just created for an absent id, and the second
\* one created for an id the store does not hold.
UserMessageTarget(r) ==
    IF r = AbsentConv THEN cNextId
    ELSE IF r \in conversations THEN r
    ELSE cNextId + 1

\* The local `conversation` of process_user_message.
LocalConversation(r) == IF r # AbsentConv /\ r \in conversations THEN r ELSE cNextId

\* conversation.messages.append(message)
AppendChat(messages, m) == Append(messages, m)

\* A history that keeps the last message of the conversation.
HistoryOf_All(messages) == messages

\* The conversation_history of _process_with_temporal:
\* conversation.messages[:-1].
HistoryOf(messages) == SubSeq(messages, 1, Len(messages) - 1)

\* process_user_message up to its first suspension: the conversation is got
\* or created, the user message added, and the path chosen.  `fails` is the
\* construction of a Conversation that raises (0: none does); the exception
\* leaves process_user_message, and the conversations created before it stay
\* in the store.  On the durable path the history is taken from the local
\* conversation before start_workflow is awaited.
ChatEnter(p, r, fails) ==
    /\ NextChatCall(p)
    /\ cNextId + CreationsNeeded(r) - 1 \in 0..MaxConvs
    /\ LET need == CreationsNeeded(r)
           made == IF fails = 0 \/ fails > need THEN need ELSE fails - 1
           new == cNextId..(cNextId + made - 1)
       IN /\ conversations' = conversations \cup new
          /\ cNextId' = cNextId + made
          /\ IF made < need
             THEN /\ cproc' = [cproc EXCEPT ![p] =
                         [@ EXCEPT !.pc = "done", !.cid = r, !.created = new,
                                   !.ret = "raised"]]
                  /\ UNCHANGED conv
             ELSE /\ conv' = [conv EXCEPT ![UserMessageTarget(r)] =
                         AppendChat(@, [turn |-> p, role |-> "user", content |-> <<>>])]
                  /\ cproc' = [cproc EXCEPT ![p] =
                         [@ EXCEPT !.pc = IF temporal = "connected"
                                          THEN "starting" ELSE "direct",
                                   !.cid = IF r = AbsentConv THEN cNextId ELSE r,
                                   !.conv = LocalConversation(r),
                                   !.created = new,
                                   !.history = IF temporal = "connected"
                                               THEN HistoryOf(conv'[LocalConversation(r)])
                                               ELSE <<>>]]
    /\ UNCHANGED <<temporal, chunks>>

\* _process_directly: one chunk of stream_chat_completion is added to
\* full_response and yielded.
DirectChunk(p, text) ==
    /\ cproc[p].pc = "direct"
    /\ cproc[p].n < MaxChunks
    /\ cproc' = [cproc EXCEPT ![p] = [@ EXCEPT !.n = @ + 1, !.full = Append(@, text)]]
    /\ chunks' = [chunks EXCEPT ![p] = Append(@, text)]
    /\ UNCHANGED <<conversations, conv, cNextId, temporal>>

\* The Anthropic stream raises: stream_chat_completion catches the exception
\* and yields its text as one more chunk, which _process_directly adds to
\* full_response and yields like any other; the stream then ends.
DirectStreamRaised(p) ==
    /\ cproc[p].pc = "direct"
    /\ cproc' = [cproc EXCEPT ![p] =
           [@ EXCEPT !.pc = "directEnded", !.raised = TRUE,
                     !.full = Append(@, ErrorChunk)]]
    /\ chunks' = [chunks EXCEPT ![p] = Append(@, ErrorChunk)]
    /\ UNCHANGED <<conversations, conv, cNextId, temporal>>

\* The completion stream has ended: add_message(conversation.id, ASSISTANT,
\* full_response).  The store holds conversation.id (nothing deletes a
\* conversation), so get_conversation returns that conversation.
DirectFinish(p) ==
    /\ cproc[p].pc \in {"direct", "directEnded"}
    /\ conv' = [conv EXCEPT ![cproc[p].conv] =
           AppendChat(@, [turn |-> p, role |-> "assistant", content |-> cproc[p].full])]
    /\ cproc' = [cproc EXCEPT ![p] = [@ EXCEPT !.pc = "done", !.ret = "complete"]]
    /\ UNCHANGED <<conversations, cNextId, temporal, chunks>>

\* _process_with_temporal from the return of start_workflow: the handle is
\* kept, or the exception is answered with a chunk.
TemporalStart(p, outcome) ==
    /\ cproc[p].pc = "starting"
    /\ IF outcome = "started"
       THEN /\ cproc' = [cproc EXCEPT ![p] = [@ EXCEPT !.pc = "waiting"]]
            /\ UNCHANGED chunks
       ELSE /\ cproc' = [cproc EXCEPT ![p] = [@ EXCEPT !.pc = "done", !.ret = "error"]]
            /\ chunks' = [chunks EXCEPT ![p] = Append(@, WorkflowErrorChunk)]
    /\ UNCHANGED <<conversations, conv, cNextId, temporal>>

\* result.get("response", "No response generated")
ResponseOf(result) ==
    IF "response" \in DOMAIN result THEN result.response ELSE NoResponseText

\* handle.result() returned: the response is yielded.
TemporalResult(p, result) ==
    /\ cproc[p].pc = "waiting"
    /\ cproc' = [cproc EXCEPT ![p] =
           [@ EXCEPT !.pc = "yielded", !.response = ResponseOf(result)]]
    /\ chunks' = [chunks EXCEPT ![p] = Append(@, ResponseOf(result))]
    /\ UNCHANGED <<conversations, conv, cNextId, temporal>>

\* handle.result() raised: the exception is answered with a chunk.
TemporalRaised(p) ==
    /\ cproc[p].pc = "waiting"
    /\ cproc' = [cproc EXCEPT ![p] = [@ EXCEPT !.pc = "done", !.ret = "error"]]
    /\ chunks' = [chunks EXCEPT ![p] = Append(@, WorkflowErrorChunk)]
    /\ UNCHANGED <<conversations, conv, cNextId, temporal>>

\* After the yield of the response: add_message(conversation.id, ASSISTANT,
\* response).
TemporalPersist(p) ==
    /\ cproc[p].pc = "yielded"
    /\ conv' = [conv EXCEPT ![cproc[p].conv] =
           AppendChat(@, [turn |-> p, role |-> "assistant",
                          content |-> <<cproc[p].response>>])]
    /\ cproc' = [cproc EXCEPT ![p] = [@ EXCEPT !.pc = "done", !.ret = "complete"]]
    /\ UNCHANGED <<conversations, cNextId, temporal, chunks>>

(***************************************************************************)
(* The agent session of a streamed turn is built by the session manager    *)
(* with the service's toolkits (GooseService.initialize): while the agent  *)
(* streams, it may call KubectlTool.execute with a command and a confirm   *)
(* flag of its choosing, and goes on streaming when the tool has returned. *)
(***************************************************************************)

\* Commands the agent asks for: one of each category of the safety check.
AgentCommands == {"get", "apply", "delete", "exec"}

\* The agent of the streaming turn p calls the kubectl tool.
AgentCallsKubectl(p, command, confirm) ==
    /\ proc[p].pc = "streaming"
    /\ entry = "idle"
    /\ entry' = "agent"
    /\ reqTool' = "kubectl"
    /\ KubectlEnter("agent", command, confirm)
    /\ UNCHANGED <<response, mcpEnabled, ppc, presult, pmcp, toolLog>>

\* The tool has returned its result to the agent.
AgentToolReturn ==
    /\ entry = "agent"
    /\ kpc = "done"
    /\ entry' = "idle"
    /\ reqTool' = None
    /\ kpc' = "idle"
    /\ kcaller' = None
    /\ kcommand' = None
    /\ kconfirm' = FALSE
    /\ ksecurity' = NoCheck
    /\ kran' = FALSE
    /\ kresult' = Pending
    /\ spawned' = {}
    /\ toolLog' = {}
    /\ UNCHANGED <<response, mcpEnabled, ppc, presult, pmcp>>

(***************************************************************************)
(* Part 5.  app/temporal/activities.py: analyze_user_intent.  The message  *)
(* is a set of words; the construction of the ChatMessage by pydantic and  *)
(* the completion (AnthropicService.get_chat_completion) are external.     *)
(***************************************************************************)

\* Words of a user message, in the spellings a user may type.
Words == {"kubectl", "Pods", "DEPLOYMENT", "list", "Hello"}

\* str.lower() on a word.
Lower(w) ==
    CASE w = "Pods" -> "pods"
      [] w = "DEPLOYMENT" -> "deployment"
      [] w = "Hello" -> "hello"
      [] OTHER -> w

\* The substrings the fallback looks for.
Keywords == {"kubectl", "pod", "deployment"}

\* `k in w` for the lower-case words of the model.
Contains(w, k) ==
    \/ w = k
    \/ w = "pods" /\ k = "pod"

\* "kubectl" in message.lower() or "pod" in message.lower() or
\* "deployment" in message.lower()
MentionsK8s(message) ==
    \E w \in message : \E k \in Keywords : Contains(Lower(w), k)

\* The fields of an intent analysis.
IntentFields == {"requires_k8s", "intent", "suggested_tools", "confidence"}

\* The result of the except branch of analyze_user_intent.
ErrorIntent ==
    [requires_k8s |-> FALSE, intent |-> "Error in analysis", suggested_tools |-> <<>>,
     confidence |-> "0.0"]

\* The result for an answer that is not JSON.
KeywordIntent(message) ==
    [requires_k8s |-> MentionsK8s(message), intent |-> "General inquiry",
     suggested_tools |-> <<>>, confidence |-> "0.5"]

\* What json.loads may give for an answer that is JSON: an object with the
\* fields asked for, or some other JSON value.
ParsedAnswers ==
    [requires_k8s : BOOLEAN, intent : {"list all pods"},
     suggested_tools : {<<>>, <<"get_pods">>}, confidence : {"0.9"}]
        \cup {[json |-> "other"]}

\* How get_chat_completion ends: an answer that is JSON, an answer that is
\* not, or an exception.
CompletionOutcomes == {"json", "not_json", "raise"}

\* Outcomes of ChatMessage(...).
BuildOutcomes == {"built", "raise"}

\* intent_data before the activity has returned.
NoAnalysis == [json |-> "none"]

VARIABLES
    apc,        \* analyze_user_intent: "idle", "completing", "returned", "raised"
    amessage,   \* its message argument
    aoutcome,   \* how the completion ended ("none": it was not called)
    aresult     \* what the activity returned

intentVars == <<apc, amessage, aoutcome, aresult>>

IntentInit ==
    /\ apc = "idle"
    /\ amessage = {}
    /\ aoutcome = "none"
    /\ aresult = NoAnalysis

\* analyze_user_intent up to `await anthropic_service.get_chat_completion`:
\* the analysis message is built; an exception goes to the except branch,
\* which returns the error result.
AnalyzeStart(message, build) ==
    /\ apc = "idle"
    /\ amessage' = message
    /\ aoutcome' = "none"
    /\ IF build = "built"
       THEN /\ apc' = "completing"
            /\ aresult' = NoAnalysis
       ELSE /\ apc' = "returned"
            /\ aresult' = ErrorIntent

\* An analysis that lets a failure of the completion leave the activity.
AnalyzeCompleted_Propagate(outcome, parsed) ==
    /\ apc = "completing"
    /\ aoutcome' = outcome
    /\ apc' = IF outcome = "raise" THEN "raised" ELSE "returned"
    /\ aresult' =
           CASE outcome = "json" -> parsed
             [] outcome = "not_json" -> KeywordIntent(amessage)
             [] OTHER -> NoAnalysis
    /\ UNCHANGED amessage

\* The completion has ended: a JSON answer is returned as parsed, an answer
\* that is not JSON gives the keyword result, an exception the error result.
AnalyzeCompleted(outcome, parsed) ==
    /\ apc = "completing"
    /\ aoutcome' = outcome
    /\ apc' = "returned"
    /\ aresult' =
           CASE outcome = "json" -> parsed
             [] outcome = "not_json" -> KeywordIntent(amessage)
             [] OTHER -> ErrorIntent
    /\ UNCHANGED amessage

\* The workflow has the result; the next analysis starts.
AnalyzeDone ==
    /\ apc = "returned"
    /\ apc' = "idle"
    /\ amessage' = {}
    /\ aoutcome' = "none"
    /\ aresult' = NoAnalysis

(***************************************************************************)
(* Part 6. Toolkit health: GooseService.get_toolkit_health and             *)
(* K8sToolkit.health_check.                                                *)
(***************************************************************************)

\* The most toolkits in the registry.
MaxToolkits == 2

\* The toolkits the registry may hold: "k8s" is the K8sToolkit, "plain" a
\* toolkit without a health_check attribute, "other" a toolkit whose
\* health_check returns a health or raises.
ToolkitNames == {"k8s", "plain", "other"}

\* hasattr(toolkit, 'health_check')
HasHealthCheck(name) == name # "plain"

\* The range of a sequence.
Range(seq) == {seq[i] : i \in DOMAIN seq}

\* self.toolkits, in the order of its items(): a dict has no key twice.
Registries ==
    {reg \in UNION {[1..n -> ToolkitNames] : n \in 0..MaxToolkits} :
         \A i, j \in DOMAIN reg : i # j => reg[i] # reg[j]}

\* The status MCPClient.health_check returns: the server's answer, or
\* "unhealthy" from its own except branch. It catches every Exception.
McpHealthOutcomes == {"healthy", "unhealthy"}

\* The status KubectlTool.check_kubectl_available returns; it catches every
\* Exception as well.
KubectlCheckOutcomes == {"ready", "error", "not_installed"}

\* How the health_check of a toolkit other than K8sToolkit ends.
OtherHealthOutcomes == {"healthy", "degraded", "raise"}

\* A check of K8sToolkit.health_check that was not made.
NotChecked == "not_checked"

\* The health dict K8sToolkit.health_check starts from.
K8sHealthStart(mcp) ==
    [status |-> "healthy", mcp_enabled |-> mcp,
     mcp_server |-> NotChecked, kubectl |-> NotChecked]

\* health["checks"]["mcp_server"] after the MCP check: its answer, or the
\* "unhealthy" entry and the "degraded" status when it raised.
K8sHealthAfterMcp(h, outcome) ==
    IF outcome = "raise"
    THEN [h EXCEPT !.mcp_server = "unhealthy", !.status = "degraded"]
    ELSE [h EXCEPT !.mcp_server = outcome]

\* health["checks"]["kubectl"] after the kubectl check: its answer, or the
\* "unavailable" entry and the "degraded" status when it raised.
K8sHealthAfterKubectl(h, outcome) ==
    IF outcome = "raise"
    THEN [h EXCEPT !.kubectl = "unavailable", !.status = "degraded"]
    ELSE [h EXCEPT !.kubectl = outcome]

\* {"status": "unknown", "tools": len(toolkit.tools)}
UnknownEntry == [status |-> "unknown"]

\* {"status": "error", "error": str(e)}
ErrorEntry == [status |-> "error", error |-> "e"]

\* health[name] = value
SetEntry(h, name, value) ==
    [n \in DOMAIN h \cup {name} |-> IF n = name THEN value ELSE h[n]]

VARIABLES
    hpc,        \* get_toolkit_health: "idle", "mcp", "kubectl", "other",
                \* "returned", "raised"
    toolkits,   \* self.toolkits as the sequence of its items
    hindex,     \* the position of the for loop in toolkits
    health,     \* the health dict of get_toolkit_health
    k8sHealth,  \* the health dict of K8sToolkit.health_check
    hfailed     \* the toolkits whose health_check raised in this call

healthVars == <<hpc, toolkits, hindex, health, k8sHealth, hfailed>>

HealthInit ==
    /\ hpc = "idle"
    /\ toolkits = <<>>
    /\ hindex = 0
    /\ health = <<>>
    /\ k8sHealth = K8sHealthStart(FALSE)
    /\ hfailed = {}

\* The for loop from position i with health dict h, run to its next
\* suspension: a toolkit without health_check gets the "unknown" entry at
\* once; a toolkit with one is awaited. [i, h]: the position reached (past
\* the end: the loop is over) and the health dict then.
RECURSIVE HealthLoop(_, _, _)
HealthLoop(reg, i, h) ==
    IF i > Len(reg) \/ HasHealthCheck(reg[i])
    THEN [i |-> i, h |-> h]
    ELSE HealthLoop(reg, i + 1, SetEntry(h, reg[i], UnknownEntry))

\* The state in which the loop over reg suspends, or returns, from
\* position i with health dict h. K8sToolkit.health_check starts with the
\* MCP check if it has an mcp_client and with the kubectl check if not.
HealthContinue(reg, i, h) ==
    LET l == HealthLoop(reg, i, h) IN
    /\ hindex' = l.i
    /\ health' = l.h
    /\ k8sHealth' = K8sHealthStart(mcpEnabled)
    /\ hpc' = CASE l.i > Len(reg) -> "returned"
                [] reg[l.i] = "k8s" -> IF mcpEnabled THEN "mcp" ELSE "kubectl"
                [] OTHER -> "other"

\* get_toolkit_health is called with the registry reg.
GetToolkitHealth(reg) ==
    /\ hpc = "idle"
    /\ toolkits' = reg
    /\ hfailed' = {}
    /\ HealthContinue(reg, 1, <<>>)

\* K8sToolkit.health_check: mcp_client.health_check() has ended.
K8sMcpChecked(outcome) ==
    /\ hpc = "mcp"
    /\ k8sHealth' = K8sHealthAfterMcp(k8sHealth, outcome)
    /\ hpc' = "kubectl"
    /\ UNCHANGED <<toolkits, hindex, health, hfailed>>

\* K8sToolkit.health_check: check_kubectl_available() has ended, the
\* toolkit's health is returned and stored, and the loop goes on.
K8sKubectlChecked(outcome) ==
    /\ hpc = "kubectl"
    /\ HealthContinue(toolkits, hindex + 1,
                      SetEntry(health, toolkits[hindex],
                               K8sHealthAfterKubectl(k8sHealth, outcome)))
    /\ UNCHANGED <<toolkits, hfailed>>

\* The health_check of another toolkit has returned.
HealthCheckReturned(status) ==
    /\ hpc = "other"
    /\ HealthContinue(toolkits, hindex + 1,
                      SetEntry(health, toolkits[hindex], [status |-> status]))
    /\ UNCHANGED <<toolkits, hfailed>>

\* A loop that lets the exception of a health_check leave the operation.
HealthCheckRaised_Propagate ==
    /\ hpc = "other"
    /\ hfailed' = hfailed \cup {toolkits[hindex]}
    /\ hpc' = "raised"
    /\ UNCHANGED <<toolkits, hindex, health, k8sHealth>>

\* The health_check of another toolkit has raised: the except branch stores
\* the "error" entry and the loop goes on.
HealthCheckRaised ==
    /\ hpc = "other"
    /\ hfailed' = hfailed \cup {toolkits[hindex]}
    /\ HealthContinue(toolkits, hindex + 1,
                      SetEntry(health, toolkits[hindex], ErrorEntry))
    /\ UNCHANGED toolkits

\* The caller has the mapping; the next call may start.
HealthDone ==
    /\ hpc = "returned"
    /\ hpc' = "idle"
    /\ toolkits' = <<>>
    /\ hindex' = 0
    /\ health' = <<>>
    /\ k8sHealth' = K8sHealthStart(FALSE)
    /\ hfailed' = {}

(***************************************************************************)
(* Specifications.                                                         *)
(***************************************************************************)

vars == <<toolVars, wfVars, storeVars, chatVars, intentVars, healthVars>>

Init ==
    ToolInit /\ WfInit /\ StoreInit /\ ChatInit /\ IntentInit /\ HealthInit

\* The steps of the tool layer.
ToolNext ==
    \/ \E t \in RequestedTools, h \in BOOLEAN, c \in Commands, f \in BOOLEAN :
           CallK8sTool(t, h, c, f) /\ UNCHANGED <<wfVars, storeVars, chatVars, intentVars, healthVars>>
    \/ \E o \in ProbeOutcomes : KubectlAfterProbe(o) /\ UNCHANGED <<wfVars, storeVars, chatVars, intentVars, healthVars>>
    \/ \E o \in RunOutcomes : KubectlAfterRun(o) /\ UNCHANGED <<wfVars, storeVars, chatVars, intentVars, healthVars>>
    \/ \E o \in PodsMcpOutcomes : PodsAfterMcp(o) /\ UNCHANGED <<wfVars, storeVars, chatVars, intentVars, healthVars>>
    \/ \E b \in BOOLEAN : PodsAfterKubectl(b) /\ UNCHANGED <<wfVars, storeVars, chatVars, intentVars, healthVars>>
    \/ CallK8sToolReturn /\ UNCHANGED <<wfVars, storeVars, chatVars, intentVars, healthVars>>
    \/ \E t \in RequestedTools : ExecuteK8sCommand(t) /\ UNCHANGED <<wfVars, storeVars, chatVars, intentVars, healthVars>>
    \/ \E o \in McpOutcomes : ExecuteK8sCommandReturn(o) /\ UNCHANGED <<wfVars, storeVars, chatVars, intentVars, healthVars>>
    \/ RequestDone /\ UNCHANGED <<wfVars, storeVars, chatVars, intentVars, healthVars>>

\* The tool layer: KubectlTool, PodsTool and the entry points that call tools.
SpecTools == Init /\ [][ToolNext]_vars

\* The steps of the workflow.
WfNext ==
    \/ WfStart /\ UNCHANGED <<toolVars, storeVars, chatVars, intentVars, healthVars>>
    \/ \E r \in IntentResults : WfIntentReturned(r) /\ UNCHANGED <<toolVars, storeVars, chatVars, intentVars, healthVars>>
    \/ WfIntentRaised /\ UNCHANGED <<toolVars, storeVars, chatVars, intentVars, healthVars>>
    \/ \E v \in McpValues : WfStatusReturned(v) /\ UNCHANGED <<toolVars, storeVars, chatVars, intentVars, healthVars>>
    \/ WfStatusRaised /\ UNCHANGED <<toolVars, storeVars, chatVars, intentVars, healthVars>>
    \/ \E v \in McpValues : WfToolReturned(v) /\ UNCHANGED <<toolVars, storeVars, chatVars, intentVars, healthVars>>
    \/ WfToolRaised /\ UNCHANGED <<toolVars, storeVars, chatVars, intentVars, healthVars>>
    \/ \E t \in ClaudeTexts : WfSynthReturned(t) /\ UNCHANGED <<toolVars, storeVars, chatVars, intentVars, healthVars>>
    \/ WfSynthRaised /\ UNCHANGED <<toolVars, storeVars, chatVars, intentVars, healthVars>>
    \/ WfReset /\ UNCHANGED <<toolVars, storeVars, chatVars, intentVars, healthVars>>

\* The durable turn: ChatWorkflow.run.
\* The initial state with the toolkit's MCP client configured.
WorkflowInit == Init /\ mcpEnabled

SpecWorkflow == WorkflowInit /\ [][WfNext]_vars

\* The steps of the session service with concurrent callers.  The agent
\* streams are cut to their endings: what a stream delivers before it finishes
\* changes no session.
StoreNext ==
    \/ \E d \in TickSteps : Tick(d) /\ UNCHANGED <<toolVars, wfVars, chatVars, intentVars, healthVars>>
    \/ CreateSession /\ UNCHANGED <<toolVars, wfVars, chatVars, intentVars, healthVars>>
    \/ \E p \in Procs, s \in KnownIds : GetSession(p, s) /\ UNCHANGED <<toolVars, wfVars, chatVars, intentVars, healthVars>>
    \/ \E p \in Procs, s \in KnownIds : CloseSession(p, s) /\ UNCHANGED <<toolVars, wfVars, chatVars, intentVars, healthVars>>
    \/ \E p \in Procs : ListSessions(p) /\ UNCHANGED <<toolVars, wfVars, chatVars, intentVars, healthVars>>
    \/ \E p \in Procs, s \in KnownIds : SendMessage(p, s) /\ UNCHANGED <<toolVars, wfVars, chatVars, intentVars, healthVars>>
    \/ \E p \in Procs, e \in StreamEndings :
           StreamFinish(p, e) /\ UNCHANGED <<toolVars, wfVars, chatVars, intentVars, healthVars>>
    \/ \E p \in Procs, o \in CloseOutcomes :
           CloseReturned(p, o) /\ UNCHANGED <<toolVars, wfVars, chatVars, intentVars, healthVars>>

\* The session store under concurrent calls.
SpecStore == WorkflowInit /\ [][StoreNext]_vars

\* The steps of one streamed turn, with every event an agent may deliver.
StreamNext ==
    \/ \E d \in TickSteps : Tick(d) /\ UNCHANGED <<toolVars, wfVars, chatVars, intentVars, healthVars>>
    \/ CreateSession /\ UNCHANGED <<toolVars, wfVars, chatVars, intentVars, healthVars>>
    \/ \E s \in KnownIds : SendMessage(1, s) /\ UNCHANGED <<toolVars, wfVars, chatVars, intentVars, healthVars>>
    \/ \E e \in StreamEvents : StreamEvent(1, e) /\ UNCHANGED <<toolVars, wfVars, chatVars, intentVars, healthVars>>
    \/ \E e \in StreamEndings : StreamFinish(1, e) /\ UNCHANGED <<toolVars, wfVars, chatVars, intentVars, healthVars>>
    \/ \E o \in CloseOutcomes : CloseReturned(1, o) /\ UNCHANGED <<toolVars, wfVars, chatVars, intentVars, healthVars>>

\* The store under get, close and list alone: the calls that evict.
SweepNext ==
    \/ \E d \in TickSteps : Tick(d) /\ UNCHANGED <<toolVars, wfVars, chatVars, intentVars, healthVars>>
    \/ CreateSession /\ UNCHANGED <<toolVars, wfVars, chatVars, intentVars, healthVars>>
    \/ \E p \in Procs, s \in KnownIds : GetSession(p, s) /\ UNCHANGED <<toolVars, wfVars, chatVars, intentVars, healthVars>>
    \/ \E p \in Procs, s \in KnownIds : CloseSession(p, s) /\ UNCHANGED <<toolVars, wfVars, chatVars, intentVars, healthVars>>
    \/ \E p \in Procs : ListSessions(p) /\ UNCHANGED <<toolVars, wfVars, chatVars, intentVars, healthVars>>
    \/ \E p \in Procs, o \in CloseOutcomes : CloseReturned(p, o) /\ UNCHANGED <<toolVars, wfVars, chatVars, intentVars, healthVars>>

\* Concurrent get_session, close_session and list_sessions.
SpecSweep == WorkflowInit /\ [][SweepNext]_vars

\* Concurrent streamed turns, without their intermediate events.
AppendNext ==
    \/ \E d \in TickSteps : Tick(d) /\ UNCHANGED <<toolVars, wfVars, chatVars, intentVars, healthVars>>
    \/ CreateSession /\ UNCHANGED <<toolVars, wfVars, chatVars, intentVars, healthVars>>
    \/ \E p \in Procs, s \in KnownIds : SendMessage(p, s) /\ UNCHANGED <<toolVars, wfVars, chatVars, intentVars, healthVars>>
    \/ \E p \in Procs, e \in StreamEndings : StreamFinish(p, e) /\ UNCHANGED <<toolVars, wfVars, chatVars, intentVars, healthVars>>
    \/ \E p \in Procs, o \in CloseOutcomes : CloseReturned(p, o) /\ UNCHANGED <<toolVars, wfVars, chatVars, intentVars, healthVars>>

\* Concurrent send_message calls.
SpecAppend == WorkflowInit /\ [][AppendNext]_vars

\* The requests that carry a user text: the websocket endpoint and the REST
\* endpoint of the session service.
RequestsNext ==
    \/ \E d \in TickSteps : Tick(d) /\ UNCHANGED <<toolVars, wfVars, chatVars, intentVars, healthVars>>
    \/ CreateSession /\ UNCHANGED <<toolVars, wfVars, chatVars, intentVars, healthVars>>
    \/ \E p \in Procs, t \in Texts, s \in KnownIds \cup {NoSessionId} :
           WebsocketRequest(p, t, s) /\ UNCHANGED <<toolVars, wfVars, chatVars, intentVars, healthVars>>
    \/ \E p \in Procs : WebsocketCreated(p) /\ UNCHANGED <<toolVars, wfVars, chatVars, intentVars, healthVars>>
    \/ \E p \in Procs : WebsocketSend(p) /\ UNCHANGED <<toolVars, wfVars, chatVars, intentVars, healthVars>>
    \/ \E p \in Procs, s \in KnownIds, t \in Texts :
           SendMessageToSession(p, s, t) /\ UNCHANGED <<toolVars, wfVars, chatVars, intentVars, healthVars>>
    \/ \E p \in Procs, e \in StreamEndings : StreamFinish(p, e) /\ UNCHANGED <<toolVars, wfVars, chatVars, intentVars, healthVars>>
    \/ \E p \in Procs, o \in CloseOutcomes : CloseReturned(p, o) /\ UNCHANGED <<toolVars, wfVars, chatVars, intentVars, healthVars>>

\* Requests to the session service over both transports.
SpecRequests == WorkflowInit /\ [][RequestsNext]_vars


\* One streamed turn: GooseService.send_message as its consumer sees it.
SpecStream == WorkflowInit /\ [][StreamNext]_vars

\* One streamed turn that its caller may abandon.
AbandonNext ==
    \/ \E d \in TickSteps : Tick(d) /\ UNCHANGED <<toolVars, wfVars, chatVars, intentVars, healthVars>>
    \/ CreateSession /\ UNCHANGED <<toolVars, wfVars, chatVars, intentVars, healthVars>>
    \/ \E s \in KnownIds : SendMessage(1, s) /\ UNCHANGED <<toolVars, wfVars, chatVars, intentVars, healthVars>>
    \/ \E e \in StreamEvents : StreamEvent(1, e) /\ UNCHANGED <<toolVars, wfVars, chatVars, intentVars, healthVars>>
    \/ \E e \in StreamEndings : StreamFinish(1, e) /\ UNCHANGED <<toolVars, wfVars, chatVars, intentVars, healthVars>>
    \/ \E t \in AbandonThrows : Abandon(1, t) /\ UNCHANGED <<toolVars, wfVars, chatVars, intentVars, healthVars>>
    \/ \E o \in CloseOutcomes : CloseReturned(1, o) /\ UNCHANGED <<toolVars, wfVars, chatVars, intentVars, healthVars>>

\* Streamed turns and their abandonment.
SpecAbandon == WorkflowInit /\ [][AbandonNext]_vars

\* The external call of a streamed turn that has an answer outstanding: the
\* agent stream delivers its next event or finishes.
StreamAnswers ==
    \/ \E e \in StreamEvents : StreamEvent(1, e) /\ UNCHANGED <<toolVars, wfVars, chatVars, intentVars, healthVars>>
    \/ \E e \in StreamEndings : StreamFinish(1, e) /\ UNCHANGED <<toolVars, wfVars, chatVars, intentVars, healthVars>>

\* The activity the workflow awaits returns or raises.
ActivityAnswers ==
    \/ \E r \in IntentResults : WfIntentReturned(r) /\ UNCHANGED <<toolVars, storeVars, chatVars, intentVars, healthVars>>
    \/ WfIntentRaised /\ UNCHANGED <<toolVars, storeVars, chatVars, intentVars, healthVars>>
    \/ \E v \in McpValues : WfStatusReturned(v) /\ UNCHANGED <<toolVars, storeVars, chatVars, intentVars, healthVars>>
    \/ WfStatusRaised /\ UNCHANGED <<toolVars, storeVars, chatVars, intentVars, healthVars>>
    \/ \E v \in McpValues : WfToolReturned(v) /\ UNCHANGED <<toolVars, storeVars, chatVars, intentVars, healthVars>>
    \/ WfToolRaised /\ UNCHANGED <<toolVars, storeVars, chatVars, intentVars, healthVars>>
    \/ \E t \in ClaudeTexts : WfSynthReturned(t) /\ UNCHANGED <<toolVars, storeVars, chatVars, intentVars, healthVars>>
    \/ WfSynthRaised /\ UNCHANGED <<toolVars, storeVars, chatVars, intentVars, healthVars>>

\* A streamed turn on a session that has not expired and a durable turn, side
\* by side.
TurnsNext ==
    \/ CreateSession /\ UNCHANGED <<toolVars, wfVars, chatVars, intentVars, healthVars>>
    \/ \E s \in KnownIds : SendMessage(1, s) /\ UNCHANGED <<toolVars, wfVars, chatVars, intentVars, healthVars>>
    \/ StreamAnswers
    \/ WfStart /\ UNCHANGED <<toolVars, storeVars, chatVars, intentVars, healthVars>>
    \/ ActivityAnswers
    \/ WfReset /\ UNCHANGED <<toolVars, storeVars, chatVars, intentVars, healthVars>>

\* Turns whose external calls all end: the agent stream and every activity
\* eventually return, raise or time out.  Callers are not obliged to start a
\* turn.
SpecTurnsLive ==
    /\ WorkflowInit
    /\ [][TurnsNext]_vars
    /\ WF_vars(StreamAnswers)
    /\ WF_vars(ActivityAnswers)

\* The steps of ChatService.
ChatNext ==
    \/ \E o \in ConnectOutcomes :
           InitializeTemporal(o) /\ UNCHANGED <<toolVars, wfVars, storeVars, intentVars, healthVars>>
    \/ \E p \in ChatProcs, r \in RequestedConvs, f \in 0..2 :
           ChatEnter(p, r, f) /\ UNCHANGED <<toolVars, wfVars, storeVars, intentVars, healthVars>>
    \/ \E p \in ChatProcs, t \in ChunkTexts :
           DirectChunk(p, t) /\ UNCHANGED <<toolVars, wfVars, storeVars, intentVars, healthVars>>
    \/ \E p \in ChatProcs : DirectStreamRaised(p) /\ UNCHANGED <<toolVars, wfVars, storeVars, intentVars, healthVars>>
    \/ \E p \in ChatProcs : DirectFinish(p) /\ UNCHANGED <<toolVars, wfVars, storeVars, intentVars, healthVars>>
    \/ \E p \in ChatProcs, o \in StartOutcomes :
           TemporalStart(p, o) /\ UNCHANGED <<toolVars, wfVars, storeVars, intentVars, healthVars>>
    \/ \E p \in ChatProcs, r \in WorkflowResults :
           TemporalResult(p, r) /\ UNCHANGED <<toolVars, wfVars, storeVars, intentVars, healthVars>>
    \/ \E p \in ChatProcs : TemporalRaised(p) /\ UNCHANGED <<toolVars, wfVars, storeVars, intentVars, healthVars>>
    \/ \E p \in ChatProcs : TemporalPersist(p) /\ UNCHANGED <<toolVars, wfVars, storeVars, intentVars, healthVars>>

\* ChatService: turns over the conversation store.
SpecChat == WorkflowInit /\ [][ChatNext]_vars

\* The steps of a streamed turn whose agent calls the kubectl tool: the agent
\* delivers events and finishes only between its tool calls.
AgentNext ==
    \/ CreateSession /\ UNCHANGED <<toolVars, wfVars, chatVars, intentVars, healthVars>>
    \/ \E s \in KnownIds : SendMessage(1, s) /\ UNCHANGED <<toolVars, wfVars, chatVars, intentVars, healthVars>>
    \/ \E e \in StreamEvents :
           entry = "idle" /\ StreamEvent(1, e) /\ UNCHANGED <<toolVars, wfVars, chatVars, intentVars, healthVars>>
    \/ \E e \in StreamEndings :
           entry = "idle" /\ StreamFinish(1, e) /\ UNCHANGED <<toolVars, wfVars, chatVars, intentVars, healthVars>>
    \/ \E c \in AgentCommands, f \in BOOLEAN :
           AgentCallsKubectl(1, c, f) /\ UNCHANGED <<wfVars, storeVars, chatVars, intentVars, healthVars>>
    \/ \E o \in ProbeOutcomes :
           KubectlAfterProbe(o) /\ UNCHANGED <<wfVars, storeVars, chatVars, intentVars, healthVars>>
    \/ \E o \in RunOutcomes : KubectlAfterRun(o) /\ UNCHANGED <<wfVars, storeVars, chatVars, intentVars, healthVars>>
    \/ AgentToolReturn /\ UNCHANGED <<wfVars, storeVars, chatVars, intentVars, healthVars>>

\* A streamed turn with its tool calls.
SpecAgent == WorkflowInit /\ [][AgentNext]_vars

\* The steps of the intent analysis.
IntentNext ==
    \/ \E m \in SUBSET Words, b \in BuildOutcomes :
           AnalyzeStart(m, b) /\ UNCHANGED <<toolVars, wfVars, storeVars, chatVars, healthVars>>
    \/ \E o \in CompletionOutcomes, a \in ParsedAnswers :
           AnalyzeCompleted(o, a) /\ UNCHANGED <<toolVars, wfVars, storeVars, chatVars, healthVars>>
    \/ AnalyzeDone /\ UNCHANGED <<toolVars, wfVars, storeVars, chatVars, healthVars>>

\* The analyze_user_intent activity.
SpecIntent == WorkflowInit /\ [][IntentNext]_vars

\* The steps of get_toolkit_health.
HealthNext ==
    \/ \E reg \in Registries :
           GetToolkitHealth(reg) /\ UNCHANGED <<toolVars, wfVars, storeVars, chatVars, intentVars>>
    \/ \E o \in McpHealthOutcomes :
           K8sMcpChecked(o) /\ UNCHANGED <<toolVars, wfVars, storeVars, chatVars, intentVars>>
    \/ \E o \in KubectlCheckOutcomes :
           K8sKubectlChecked(o) /\ UNCHANGED <<toolVars, wfVars, storeVars, chatVars, intentVars>>
    \/ \E o \in OtherHealthOutcomes \ {"raise"} :
           HealthCheckReturned(o) /\ UNCHANGED <<toolVars, wfVars, storeVars, chatVars, intentVars>>
    \/ HealthCheckRaised /\ UNCHANGED <<toolVars, wfVars, storeVars, chatVars, intentVars>>
    \/ HealthDone /\ UNCHANGED <<toolVars, wfVars, storeVars, chatVars, intentVars>>

\* The health operation, with and without an MCP client.
SpecHealth == Init /\ [][HealthNext]_vars

(***************************************************************************)
(* Claims about the tool layer (SpecTools).                                *)
(***************************************************************************)

\* C1: KubectlTool.execute reaches _execute_command only when
\* _check_command_security(command, confirm) returned allowed=true: whenever the
\* requested command was run, the security check of that call had been made and
\* had allowed it, and a call that was denied (dangerous, write without confirm,
\* unknown) has not run the command nor spawned its subprocess.
C1_RunOnlyWhenAllowed ==
    /\ kran => (ksecurity # NoCheck /\ ksecurity.allowed)
    /\ (ksecurity # NoCheck /\ ~ksecurity.allowed) =>
           (~kran /\ "command" \notin spawned /\ kpc # "running" /\ ~kresult.success)
    /\ \A e \in toolLog : e.via = "kubectl" => kran

\* A confirmed write command has been handed to _execute_command.
C1_Witness ==
    /\ kran
    /\ kpc = "running"
    /\ kcommand \in WRITE_COMMANDS
    /\ kconfirm

\* C2: every command of DANGEROUS_COMMANDS is classified dangerous and not
\* allowed, with confirm=true as with confirm=false, and the membership test
\* for DANGEROUS_COMMANDS is the only one evaluated (it comes first).
C2_ForbiddenAlways ==
    /\ (kcommand \in DANGEROUS_COMMANDS /\ ksecurity # NoCheck) =>
           /\ ~ksecurity.allowed
           /\ ksecurity.category = "dangerous"
           /\ ksecurity.consulted = <<"DANGEROUS_COMMANDS">>
           /\ ~kran
    /\ ksecurity # NoCheck => ksecurity.consulted[1] = "DANGEROUS_COMMANDS"

\* A dangerous command has been classified with confirm=true.
C2_Witness ==
    /\ kcommand \in DANGEROUS_COMMANDS
    /\ kconfirm
    /\ ksecurity # NoCheck
    /\ kpc = "done"

\* C4: a command of WRITE_COMMANDS is refused as write_needs_confirmation with
\* confirm=false and allowed with confirm=true.
C4_WriteNeedsConfirm ==
    (kcommand \in WRITE_COMMANDS /\ ksecurity # NoCheck) =>
        /\ ksecurity.allowed = kconfirm
        /\ ~kconfirm => (ksecurity.category = "write_needs_confirmation" /\ ~kran)
        /\ kconfirm => (ksecurity.category = "confirmed_write" /\ kran)

\* A write command without confirm has been classified and refused.
C4_Witness ==
    /\ kcommand \in WRITE_COMMANDS
    /\ ~kconfirm
    /\ ksecurity # NoCheck
    /\ kpc = "done"

\* C5: a command in none of SAFE_COMMANDS, WRITE_COMMANDS and
\* DANGEROUS_COMMANDS is classified unknown, is not allowed and is never run,
\* for both values of confirm.
C5_UnknownFailsClosed ==
    (kcommand \in Commands
        /\ kcommand \notin SAFE_COMMANDS \cup WRITE_COMMANDS \cup DANGEROUS_COMMANDS) =>
        /\ ~kran
        /\ "command" \notin spawned
        /\ ksecurity # NoCheck =>
               (~ksecurity.allowed /\ ksecurity.category = "unknown")
        /\ kresult # Pending => ~kresult.success

\* An unknown command has been classified with confirm=true.
C5_Witness ==
    /\ kcommand \in OtherCommands
    /\ kconfirm
    /\ ksecurity # NoCheck
    /\ ksecurity.category = "unknown"

\* C3: every tool invocation (a kubectl subprocess, an MCP tools/call request,
\* a tool's execute body) is preceded by a classification that allowed it.
C3_EveryInvocationGated ==
    \A e \in toolLog : e.verdict \in {"safe", "confirmed_write"}

(***************************************************************************)
(* Claims about the workflow (SpecWorkflow).                               *)
(***************************************************************************)

\* C7: ChatWorkflow.run always returns a result whose response is non-empty,
\* whatever step fails: no failure or timeout of intent analysis, cluster
\* status, a tool execution or the response leaves run as an exception, and a
\* failure gives a result with error set and an explanation as response.
C7_AlwaysReturnsResponse ==
    /\ wpc # "faulted"
    /\ wpc = "returned" => (wresponse # None /\ wresponse # "")
    /\ (wpc = "returned" /\ werror # None) => wresponse = ErrorResponse

TerminalTypes == {"message_complete", "error"}

\* The positions of the terminal events among the events of coroutine p.
TerminalAt(p) == {i \in 1..Len(events[p]) : events[p][i].type \in TerminalTypes}

\* C6: every streamed turn emits exactly one terminal event (message_complete
\* or error), and no event after it, whatever the agent stream delivers, a
\* stream that ends without message_complete included.
C6_ExactlyOneTerminal ==
    \A p \in Procs :
        /\ \A i \in TerminalAt(p) : i = Len(events[p])
        /\ (proc[p].op = "turn" /\ proc[p].pc = "done") =>
               TerminalAt(p) = {Len(events[p])} /\ events[p] # <<>>

\* C9: once get_session has answered None for an expired session, a
\* list_sessions called afterwards does not return that session, also when
\* releasing the agent session failed during the close.
C9_ExpiredNotListed ==
    \A p \in Procs :
        /\ (proc[p].op = "get" /\ proc[p].pc = "done" /\ proc[p].ref # UnknownId) =>
               proc[p].ret = "none"
        /\ (proc[p].op = "list" /\ proc[p].pc = "done") =>
               proc[p].listed \cap proc[p].after = {}

\* The turns that have appended their user message to session s.
UserAppended(s) ==
    {p \in Procs : /\ proc[p].op = "turn"
                   /\ proc[p].ref = s
                   /\ \/ proc[p].pc = "streaming"
                      \/ proc[p].pc = "done" /\ proc[p].ret \in {"complete", "ended", "error"}}

\* The turns that have appended their assistant message to session s.
AssistantAppended(s) ==
    {p \in Procs : proc[p].op = "turn" /\ proc[p].ref = s /\ proc[p].ret = "complete"}

\* The messages the turns have appended to session s.
Appended(s) ==
    {[turn |-> p, role |-> "user"] : p \in UserAppended(s)}
        \cup {[turn |-> p, role |-> "assistant", content |-> proc[p].content] :
                  p \in AssistantAppended(s)}

\* C10: after N appends by concurrent turns to one session, under every
\* interleaving at the suspension points, the session's message list holds
\* exactly those N messages, each once, in an order that keeps each turn's user
\* message before its assistant message.
C10_NoLostAppend ==
    \A s \in SessionIds :
        LET msgs == sess[s].messages
        IN /\ Len(msgs) = Cardinality(Appended(s))
           /\ {msgs[i] : i \in 1..Len(msgs)} = Appended(s)
           /\ \A i, j \in 1..Len(msgs) :
                  (msgs[i].turn = msgs[j].turn /\ msgs[i].role = "user"
                      /\ msgs[j].role = "assistant") => i < j

\* Two turns on one session overlapped: both appended their user message
\* before either appended its assistant message, and all four are in the list.
C10_Witness ==
    \E s \in SessionIds :
        /\ Len(sess[s].messages) = 4
        /\ sess[s].messages[1].role = "user"
        /\ sess[s].messages[2].role = "user"
        /\ sess[s].messages[1].turn # sess[s].messages[2].turn

\* C11: two turns on one session are never interleaved: the message list of a
\* session never shows the user message and the assistant message of one turn
\* with a message of another turn between them.
C11_TurnsNotInterleaved ==
    \A s \in SessionIds :
        LET msgs == sess[s].messages
        IN \A i, j, k \in 1..Len(msgs) :
               (i < j /\ j < k /\ msgs[i].turn = msgs[k].turn) =>
                   msgs[j].turn = msgs[i].turn

\* The messages of session s that the turn of coroutine p appended, in order.
MessagesOfTurn(s, p) == SelectSeq(sess[s].messages, LAMBDA m : m.turn = p)

\* The turns whose agent stream raised.
RaisedTurns ==
    {p \in Procs : proc[p].op = "turn" /\ proc[p].pc = "done" /\ proc[p].ret = "error"}

\* C12 as stated: when the agent stream raises during a turn, the turn ends
\* with an error event and the session's message list is as long as before
\* the turn: the turn has left no message in it.
C12_LengthUnchanged ==
    \A p \in RaisedTurns :
        /\ events[p][Len(events[p])].type = "error"
        /\ MessagesOfTurn(proc[p].ref, p) = <<>>

\* C12, amended: when the agent stream raises during a turn, the turn ends
\* with an error event and has left exactly its user message in the session's
\* message list; no assistant message, partial or not, is persisted.
C12_OnlyUserMessageKept ==
    \A p \in RaisedTurns :
        /\ events[p][Len(events[p])].type = "error"
        /\ MessagesOfTurn(proc[p].ref, p) = <<[turn |-> p, role |-> "user"]>>

\* The agent stream raised after text had been accumulated.
C12_Witness ==
    \E p \in RaisedTurns :
        /\ proc[p].content # <<>>
        /\ sess[proc[p].ref].messages = <<[turn |-> p, role |-> "user"]>>

(***************************************************************************)
(* Claims about ChatService (SpecChat) and about both services.            *)
(***************************************************************************)

\* The assistant messages the turn of coroutine p of ChatService has left in
\* conversation c.
AssistantOfChat(c, p) ==
    SelectSeq(conv[c], LAMBDA m : m.turn = p /\ m.role = "assistant")

RequiresConfirmationReasons ==
    {"modifies cluster state and requires confirmation (set confirm=true)"}

\* The kubectl tool has answered a delete that the agent of turn 1 asked for
\* without confirm.
DeleteWithoutConfirmAnswered ==
    /\ kcaller = "agent"
    /\ kcommand = "delete"
    /\ ~kconfirm
    /\ ksecurity # NoCheck

\* The session of turn 1 holds the turn's user message.
UserMessageRecorded ==
    \E i \in 1..Len(sess[proc[1].ref].messages) :
        sess[proc[1].ref].messages[i] = [turn |-> 1, role |-> "user"]

GetPodsTurn ==
    /\ intent.requires_k8s
    /\ intent.suggested_tools = <<"get_pods">>
    /\ wFailed = {}
    /\ werror = None

\* The messages given to get_claude_response for a turn without history.
SynthInput == EnhanceMessages(<<>>, k8s_data, toolResults)

\* C15: when intent analysis asks for get_pods and every activity succeeds,
\* the workflow gathers the cluster status, then executes get_pods, then
\* synthesizes the response, and returns a result with a non-empty response,
\* no error, and a k8s_tool_results entry for get_pods whose content is part
\* of the messages given to the synthesis.
C15_GetPodsScenario ==
    GetPodsTurn =>
        /\ wpc = "tools" => k8s_data # None
        /\ wSynth => (k8s_data # None /\ wTried = {1} /\ "get_pods" \in DOMAIN toolResults)
        /\ wpc = "returned" =>
               /\ wSynth
               /\ wresponse # None /\ wresponse # ""
               /\ werror = None
               /\ "get_pods" \in DOMAIN toolResults
               /\ \E i \in 1..Len(SynthInput) :
                      /\ SynthInput[i].role = "system"
                      /\ "get_pods" \in DOMAIN SynthInput[i].tools
                      /\ SynthInput[i].tools["get_pods"] = toolResults["get_pods"]

(***************************************************************************)
(* More claims about the session service.                                  *)
(***************************************************************************)

\* The close_session calls (DELETE /goose/sessions/{id}) that have returned.
ClosesDone == {p \in Procs : proc[p].op = "close" /\ proc[p].pc = "done"}

\* C16: close_session is idempotent: it returns false, without an error, only
\* for an id that is unknown or already closed (the store does not hold it),
\* and closing an open session returns true, once: after a close that
\* returned true the session is closed and gone, and no second close of that
\* id returns true.
C16_CloseIdempotent ==
    /\ \A p \in ClosesDone :
           /\ proc[p].ret \in {"true", "false"}
           /\ proc[p].ret = "false" => proc[p].sid \notin sessions
           /\ proc[p].ret = "true" =>
                  /\ proc[p].sid \notin sessions
                  /\ sess[proc[p].sid].status = "closed"
    /\ \A s \in SessionIds :
           Cardinality({p \in ClosesDone : proc[p].sid = s /\ proc[p].ret = "true"}) <= 1

\* C17: a turn asked for with a session id the store does not hold starts with
\* session_start, on a session created for it: the first event of every turn
\* is session_start, and the turn runs on a session of the store.
C17_UnknownIdStartsSession ==
    \A p \in Procs :
        (proc[p].op = "turn" /\ events[p] # <<>>) =>
            /\ events[p][1].type = "session_start"
            /\ proc[p].ref # UnknownId

\* The turns of the session service that found their session in the store.
TurnsOnSession ==
    {p \in Procs : \E s \in SessionIds : p \in UserAppended(s)}

\* The turns of ChatService on a conversation the store held when they began,
\* from the choice of the path on.
TurnsOnConversation ==
    {p \in ChatProcs : /\ cproc[p].pc # "idle"
                       /\ cproc[p].ret # "raised"
                       /\ cproc[p].created = {}}

\* C18: in every turn on an existing session the user message is in the
\* session's message list before the agent stream, the workflow, the
\* completion stream or a tool is called, and it is still there when the turn
\* has failed later.
C18_UserMessageFirst ==
    /\ \A p \in TurnsOnSession :
           \E i \in 1..Len(sess[proc[p].ref].messages) :
               sess[proc[p].ref].messages[i] = [turn |-> p, role |-> "user"]
    /\ entry = "agent" => 1 \in TurnsOnSession
    /\ \A p \in TurnsOnConversation :
           /\ cproc[p].conv = cproc[p].cid
           /\ \E i \in 1..Len(conv[cproc[p].cid]) :
                  /\ conv[cproc[p].cid][i].turn = p
                  /\ conv[cproc[p].cid][i].role = "user"

\* A turn has failed after its agent stream had started, and the session holds
\* its user message.
C18_Witness ==
    /\ proc[1].op = "turn"
    /\ proc[1].pc = "done"
    /\ proc[1].ret = "error"
    /\ sess[proc[1].ref].messages = <<[turn |-> 1, role |-> "user"]>>

(***************************************************************************)
(* Claims about the intent analysis (SpecIntent).                          *)
(***************************************************************************)

\* C19: analyze_user_intent never raises; for an answer of the completion
\* that is not JSON it returns the keyword result (requires_k8s exactly when
\* the message mentions kubectl, pod or deployment in any spelling), and for a
\* failed completion the error result; both have the fields requires_k8s,
\* intent, suggested_tools and confidence.
C19_IntentNeverFails ==
    /\ apc # "raised"
    /\ (apc = "returned" /\ aoutcome = "not_json") =>
           /\ DOMAIN aresult = IntentFields
           /\ aresult.requires_k8s =
                  (amessage \cap {"kubectl", "Pods", "DEPLOYMENT"} # {})
           /\ aresult.suggested_tools = <<>>
    /\ (apc = "returned" /\ aoutcome = "raise") =>
           /\ DOMAIN aresult = IntentFields
           /\ ~aresult.requires_k8s
           /\ aresult.suggested_tools = <<>>

\* The keyword result was returned for a message that spells a keyword in
\* capitals.
C19_Witness ==
    /\ apc = "returned"
    /\ aoutcome = "not_json"
    /\ amessage = {"DEPLOYMENT", "list"}
    /\ aresult.requires_k8s

(***************************************************************************)
(* Claims about the toolkit health (SpecHealth).                           *)
(***************************************************************************)

\* C20: get_toolkit_health never throws: no call ends with an exception; the
\* mapping built so far has an entry for exactly the toolkits the loop has
\* passed, so the returned mapping has one for every toolkit; a toolkit whose
\* health_check raised has the "error" entry; and every other toolkit has the
\* entry of its own check, whether it comes before or after a failed one.
C20_HealthNeverThrows ==
    /\ hpc # "raised"
    /\ hpc # "idle" =>
           /\ DOMAIN health = {toolkits[i] : i \in 1..(hindex - 1)}
           /\ hfailed \subseteq DOMAIN health \cup {toolkits[i] : i \in {hindex} \cap DOMAIN toolkits}
           /\ \A n \in DOMAIN health :
                  IF n \in hfailed
                  THEN health[n] = ErrorEntry
                  ELSE health[n].status \in {"healthy", "degraded", "unknown"}
    /\ hpc = "returned" =>
           /\ DOMAIN health = Range(toolkits)
           /\ hfailed \subseteq DOMAIN health

\* A call has returned in which the first toolkit's health_check raised and
\* the second toolkit's entry is its own.
C20_Witness ==
    /\ hpc = "returned"
    /\ Len(toolkits) = 2
    /\ toolkits[1] \in hfailed
    /\ health[toolkits[1]] = ErrorEntry
    /\ toolkits[2] \in DOMAIN health \ hfailed
    /\ health[toolkits[2]].status \in {"healthy", "unknown"}

(***************************************************************************)
(* Claims about the session store and the workflow, continued.             *)
(***************************************************************************)

\* C21: in every step of the service, which is what runs between two
\* suspension points, the updated_at of every session does not decrease, and
\* a session whose message list has changed has the time of that step as its
\* updated_at: no coroutine resumes to a list with a message appended after
\* updated_at.
C21_UpdatedAtBumped ==
    [][\A s \in SessionIds :
           /\ sess'[s].updated_at >= sess[s].updated_at
           /\ sess'[s].messages # sess[s].messages =>
                  /\ sess'[s].updated_at = now'
                  /\ Len(sess'[s].messages) = Len(sess[s].messages) + 1]_vars

\* A message was appended to a session after the clock had advanced, and the
\* session's updated_at is the time of the append.
C21_Witness ==
    \E s \in sessions :
        /\ sess[s].messages # <<>>
        /\ sess[s].updated_at > 0
        /\ sess[s].updated_at = now

\* The tool_result events the turns have yielded.
ToolResultsYielded ==
    UNION {{events[p][i] : i \in {j \in DOMAIN events[p] :
                                     events[p][j].type = "tool_result"}} : p \in Procs}

\* C22: every tool_result a streamed turn has yielded carries an error if and
\* only if its success flag is false.
C22_ErrorIffFailure ==
    \A r \in ToolResultsYielded : (r.error # None) <=> ~r.success

\* The turns their callers have abandoned.
AbandonedTurns == {p \in Procs : proc[p].pc = "abandoned"}

\* C23: an abandoned turn has yielded no terminal event and has no assistant
\* message in its session, and from its abandonment on its events and its
\* messages in the session stay as they are.
C23_AbandonedTurnIsSilent ==
    /\ [](\A p \in AbandonedTurns :
              /\ TerminalAt(p) = {}
              /\ \A m \in Range(sess[proc[p].ref].messages) :
                     ~(m.turn = p /\ m.role = "assistant"))
    /\ [][\A p \in AbandonedTurns :
              /\ events'[p] = events[p]
              /\ proc'[p] = proc[p]
              /\ MessagesOfTurn(proc[p].ref, p)' = MessagesOfTurn(proc[p].ref, p)]_vars

\* A turn was abandoned after it had appended its user message and yielded a
\* text.
C23_Witness ==
    \E p \in AbandonedTurns :
        /\ proc[p].content # <<>>
        /\ Len(events[p]) > 1
        /\ [turn |-> p, role |-> "user"] \in Range(sess[proc[p].ref].messages)

\* C24: with every external call ending, a streamed turn that has started
\* eventually yields message_complete or error, and a workflow run that has
\* started eventually returns its result with a response.
C24_TurnsTerminate ==
    /\ (proc[1].op = "turn" /\ proc[1].pc # "idle") ~> (TerminalAt(1) # {})
    /\ (wpc = "intent") ~> (wpc = "returned" /\ wresponse # None)

\* C25: the workflow's steps run one after the other in the order intent
\* analysis, cluster status, tools, response.  While the analysis runs nothing
\* else has run; the cluster status runs only for an analysis with
\* requires_k8s and before any tool; the tool activities run after the
\* cluster status has returned, one at a time in the order of the list; the
\* response runs after all of them; and for an analysis without requires_k8s
\* no cluster status and no tool activity has run when the response does.
C25_StepsInSequence ==
    /\ wpc \in {"idle", "intent"} => (k8s_data = None /\ wTried = {} /\ ~wSynth)
    /\ wpc = "status" =>
           (intent.requires_k8s /\ k8s_data = None /\ wTried = {} /\ ~wSynth)
    /\ wpc = "tools" =>
           /\ intent.requires_k8s /\ k8s_data # None /\ ~wSynth
           /\ wi \in 1..Len(intent.suggested_tools)
           /\ wTried = 1..wi
    /\ wSynth =>
           IF intent.requires_k8s
           THEN k8s_data # None /\ wTried = 1..Len(intent.suggested_tools)
           ELSE k8s_data = None /\ wTried = {}
    /\ ~intent.requires_k8s => (k8s_data = None /\ wTried = {})
    /\ (DOMAIN toolResults # {} \/ wFailed # {}) => wTried # {}

\* A turn has returned after the cluster status, two tools in the order of the
\* list, and the response.
C25_Witness ==
    /\ wpc = "returned"
    /\ intent.requires_k8s
    /\ Len(intent.suggested_tools) = 2
    /\ intent.suggested_tools[1] # intent.suggested_tools[2]
    /\ k8s_data # None
    /\ wTried = {1, 2}
    /\ wSynth
    /\ werror = None

\* C26: when the tool loop is over, the result holds an outcome under the name
\* of every suggested tool whose activity was executed, the ones whose
\* activity raised included.
C26_OutcomePerOperation ==
    (wpc \in {"synth", "returned"} /\ intent.requires_k8s) =>
        \A i \in wTried : intent.suggested_tools[i] \in DOMAIN toolResults

\* C27: a step whose execute_activity raises, as it does on a timeout, is a
\* failed step and no more: the run is never left by the exception, in
\* particular not by that of the intent analysis, and a run that has returned
\* has a response.
C27_TimeoutIsStepFailure ==
    /\ wpc # "faulted"
    /\ wpc = "returned" => wresponse # None

\* The list_sessions calls that have returned.
ListsDone == {p \in Procs : proc[p].op = "list" /\ proc[p].pc = "done"}

\* C28: a list_sessions that has returned lists no session that was expired
\* when it was called, and every such session is closed and out of the store.
C28_ListSweeps ==
    \A p \in ListsDone :
        /\ proc[p].listed \cap proc[p].expired = {}
        /\ \A s \in proc[p].expired :
               s \notin sessions /\ sess[s].status = "closed"

\* The coroutines that have invoked goose_session.close() for session s and
\* wait for its return.
Releasing(s) == {p \in Procs : proc[p].pc = "closing" /\ proc[p].sid = s}

\* C29: a step that takes a session out of the store is the return of a
\* goose_session.close() invoked for that session, by close_session itself or
\* by the eviction of get_session, list_sessions or send_message; and a
\* session that is out of the store is closed.
C29_ReleasedBeforeRemoval ==
    /\ [](\A s \in 1..(nextId - 1) : s \notin sessions => sess[s].status = "closed")
    /\ [][\A s \in sessions :
              s \notin sessions' =>
                  \E p \in Releasing(s) : proc'[p].pc # "closing" \/ proc'[p].sid # s]_vars

\* An expired session has left the store through the eviction of get_session
\* or list_sessions.
C29_Witness ==
    \E p \in Procs :
        /\ proc[p].op \in {"get", "list"}
        /\ proc[p].pc = "done"
        /\ proc[p].ref # UnknownId
        /\ proc[p].ref \notin sessions
        /\ sess[proc[p].ref].status = "closed"

(***************************************************************************)
(* Claims about the tool layer, continued (SpecTools).                     *)
(***************************************************************************)

\* What _get_pods_via_kubectl makes of the result of the local runner, up to
\* whether its output parsed.
LocalPodsResults ==
    IF ~kresult.success
    THEN {[success |-> FALSE, error |-> kresult.error]}
    ELSE {[success |-> TRUE, error |-> ""],
          [success |-> FALSE, error |-> "Failed to parse kubectl output"]}

\* C30: a PodsTool.execute with an MCP client that has returned gave the MCP
\* result only when the MCP call succeeded, and then without running kubectl;
\* when the MCP call raised or returned an error it ran the local kubectl
\* runner, returned what that gave, and logged the fallback.
C30_FallbackLogged ==
    (ppc = "done" /\ pmcp.outcome # "none") =>
        IF pmcp.outcome = "result"
        THEN presult.success /\ kcaller # "pods"
        ELSE /\ kcaller = "pods"
             /\ presult \in LocalPodsResults
             /\ pmcp.warned

(***************************************************************************)
(* Claims about the streamed turn, continued.                              *)
(***************************************************************************)

\* The events of type t that turn p has yielded, in the order of emission.
EventsOfType(p, t) == SelectSeq(events[p], LAMBDA e : e.type = t)

\* The text fragments of the message_delta events of turn p, in order.
DeltasOf(p) ==
    LET ds == EventsOfType(p, "message_delta")
    IN [i \in DOMAIN ds |-> ds[i].delta]

\* The assistant messages turn p has appended to its session.
AssistantOfTurn(p) ==
    IF proc[p].ref \in SessionIds
    THEN SelectSeq(sess[proc[p].ref].messages,
                   LAMBDA m : m.turn = p /\ m.role = "assistant")
    ELSE <<>>

\* C31: every message_delta of a turn carries the turn's message_id; while
\* the turn is streaming it has appended no assistant message; and a turn that
\* has yielded message_complete has yielded it once, with that message_id and
\* the deltas in their order as content, and has appended exactly one
\* assistant message, with that id and that content.
C31_DeltasAccumulate ==
    \A p \in Procs :
        /\ \A i \in DOMAIN EventsOfType(p, "message_delta") :
               EventsOfType(p, "message_delta")[i].message_id = p
        /\ proc[p].pc = "streaming" => AssistantOfTurn(p) = <<>>
        /\ EventsOfType(p, "message_complete") = <<>> => AssistantOfTurn(p) = <<>>
        /\ EventsOfType(p, "message_complete") # <<>> =>
               /\ Len(EventsOfType(p, "message_complete")) = 1
               /\ events[p][Len(events[p])].type = "message_complete"
               /\ events[p][Len(events[p])].message_id = p
               /\ events[p][Len(events[p])].content = DeltasOf(p)
               /\ AssistantOfTurn(p) =
                      <<[turn |-> p, role |-> "assistant", content |-> DeltasOf(p)]>>

\* A turn has completed after two deltas, with a tool result between them or
\* not.
C31_Witness ==
    \E p \in Procs :
        /\ EventsOfType(p, "message_complete") # <<>>
        /\ Len(DeltasOf(p)) = 2
        /\ DeltasOf(p)[1] # DeltasOf(p)[2]
        /\ AssistantOfTurn(p) # <<>>

\* C32: in the events of a turn every tool_result has a tool_call for the
\* same tool before it, and once the turn has ended every tool_call has a
\* tool_result for the same tool after it.
C32_ToolEventsPaired ==
    \A p \in Procs :
        LET evs == events[p]
        IN /\ \A i \in DOMAIN evs :
                  evs[i].type = "tool_result" =>
                      \E j \in 1..(i - 1) :
                          evs[j].type = "tool_call" /\ evs[j].name = evs[i].name
           /\ proc[p].pc = "done" =>
                  \A i \in DOMAIN evs :
                      evs[i].type = "tool_call" =>
                          \E j \in (i + 1)..Len(evs) :
                              evs[j].type = "tool_result" /\ evs[j].name = evs[i].name

(***************************************************************************)
(* Claims about the requests of the session service (SpecRequests).        *)
(***************************************************************************)

\* C33: a request with empty user text, or a turn addressed to an unknown
\* session id, is reported as an error immediately and has no side effect: the
\* request is answered as invalid or not found without becoming a turn, and no
\* session holds a message of it.
C33_RejectedWithoutEffect ==
    \A p \in Procs :
        (proc[p].op # "none" /\ (proc[p].text = "" \/ proc[p].sid = UnknownId)) =>
            /\ proc[p].pc \in {"done", "closing"}
            /\ proc[p].pc = "done" => proc[p].ret \in {"invalid", "none"}
            /\ \A s \in SessionIds :
                   \A m \in Range(sess[s].messages) : m.turn # p

(***************************************************************************)
(* Claims about ChatService, continued (SpecChat).                         *)
(***************************************************************************)

\* The positions of the assistant messages of turn p in conversation c.
AssistantAt(p, c) ==
    {i \in DOMAIN conv[c] : conv[c][i].turn = p /\ conv[c][i].role = "assistant"}

C36_UnknownIdCreatesOne ==
    \A p \in ChatProcs :
        (cproc[p].cid = UnknownConv /\ cproc[p].pc \notin {"idle"}
             /\ cproc[p].ret # "raised") =>
            /\ Cardinality(cproc[p].created) = 1
            /\ cproc[p].created = {cproc[p].conv}
            /\ \E i \in DOMAIN conv[cproc[p].conv] :
                   conv[cproc[p].conv][i].turn = p /\ conv[cproc[p].conv][i].role = "user"

(***************************************************************************)
(* Claims about the session store, continued.                              *)
(***************************************************************************)

\* The sessions whose message list, updated_at, status or store entry a step
\* changes.
ChangedSessions ==
    {b \in SessionIds : sess'[b] # sess[b] \/ (b \in sessions) # (b \in sessions')}

\* C35: operations on different sessions are independent: a step of a turn,
\* an append, a close or an expiry eviction changes the message list,
\* updated_at, status and store entry of no session other than the one the
\* acting call addresses, and no step changes two sessions.
C35_SessionsIndependent ==
    [][/\ Cardinality(ChangedSessions) <= 1
       /\ \A p \in Procs :
              proc'[p] # proc[p] =>
                  ChangedSessions \subseteq {proc[p].sid, proc'[p].sid}]_vars

\* One session was evicted while the other, with a message of a turn, is
\* still active.
C35_Witness ==
    \E a, b \in SessionIds :
        /\ a # b
        /\ sess[a].status = "closed" /\ a \notin sessions
        /\ sess[b].status = "active" /\ b \in sessions
        /\ sess[b].messages # <<>>

\* C37: no message is appended to a session after it was closed or evicted: a
\* turn that was suspended while close_session ran on its session does not
\* afterwards append its assistant message to the closed session.
C37_NoAppendAfterClose ==
    [][\A s \in SessionIds :
           (sess[s].status = "closed" \/ (sess[s].status # "none" /\ s \notin sessions)) =>
               sess'[s].messages = sess[s].messages]_vars

\* C38: the release of a session's agent session is invoked at most once, and
\* at most one close_session call for a session returns true, also when two
\* closes of the session overlap inside close_session.
C38_ReleasedOnce ==
    \A s \in SessionIds :
        /\ Cardinality(Releasing(s)) <= 1
        /\ Cardinality({p \in Procs : /\ proc[p].op = "close" /\ proc[p].sid = s
                                      /\ proc[p].ret = "true"}) <= 1

(***************************************************************************)
(* Claims about the synthesis input of a durable turn (SpecChat).          *)
(***************************************************************************)

\* The values response_data holds for the cluster status and the tool results
\* when the synthesis step is reached.
StatusValues == {None} \cup McpValues
ToolResultMaps == UNION {[S -> McpValues] : S \in SUBSET WfTools}

\* The turns that took the durable path.
DurableTurns ==
    {p \in ChatProcs : cproc[p].pc \notin {"idle", "direct", "directEnded"}
                       /\ cproc[p].ret # "raised" /\ temporal = "connected"}

\* The list _enhance_messages_with_k8s_context builds from history h ends with
\* the current user message, which it holds once; before it come the history,
\* in order, and, when there is cluster data or a tool result, one system
\* context message right before the last element; h is left as it was.
EnhancedShape(h, d, r) ==
    LET out == EnhanceMessages(h, d, r)
        ctx == d # None \/ DOMAIN r # {}
    IN /\ Len(out) = Len(h) + (IF ctx THEN 2 ELSE 1)
       /\ out[Len(out)] = CurrentUserMessage
       /\ Cardinality({i \in DOMAIN out : out[i] = CurrentUserMessage}) = 1
       /\ SubSeq(out, 1, Len(h)) = h
       /\ ctx => out[Len(out) - 1] = ContextMessage(d, r)
       /\ Cardinality({i \in DOMAIN out : out[i].role = "system"}) = (IF ctx THEN 1 ELSE 0)
       /\ HistoryAfterEnhance(h, d, r) = h

C40_DenialBeforeAnySubprocess ==
    (kpc # "idle" /\ kcommand # EmptyCommand
         /\ ~CheckCommandSecurity(kcommand, kconfirm).allowed) =>
        /\ spawned = {}
        /\ kpc = "done"
        /\ kresult = [success |-> FALSE,
                      error |-> CheckCommandSecurity(kcommand, kconfirm).reason]

====
